---- MODULE Spec2Model ----
(***************************************************************************)
(* Vocabulary collection of Lingo2: the category state machine of          *)
(* components/WordManager.tsx (admission by import and by manual add,      *)
(* deletion, batch move) over the entries array.                           *)
(*                                                                         *)
(* Strings are sequences of one-character strings, so that toLowerCase()   *)
(* and trim() are computed and not assumed.  The payload fields of a       *)
(* WordEntry that the handlers only copy (phonetics, sentences,            *)
(* inflections) are not carried.  The scenario filter and the search box   *)
(* stay as they are at mount (all scenarios, no query).                    *)
(*                                                                         *)
(* Spec starts from any collection the handlers can leave behind and runs  *)
(* one handler to its end; the import takes one step for each candidate.   *)
(* The ids and the timestamps of new entries are what Date.now() and       *)
(* Math.random() give: any values, equal ones included.  In Spec the       *)
(* outcome of a lookup is any list of drafts, or an exception.             *)
(*                                                                         *)
(* SpecLookup follows the lookup of one candidate of an import through the *)
(* background script (the dictionaries of fetchEnglishDictionaryData, one  *)
(* step for each, and the LOOKUP_WORD handler), fetchWordDetails and the   *)
(* classification of its drafts.                                           *)
(***************************************************************************)
EXTENDS Integers, Sequences, FiniteSets, TLC

\* ---------------------------------------------------------------- bounds
MaxCandidates == 2
MaxSenses == 2
MaxClock == 2

\* ------------------------------------------------------------ categories
KnownWord == "KnownWord"
WantToLearnWord == "WantToLearnWord"
LearningWord == "LearningWord"
WordCategory == {KnownWord, WantToLearnWord, LearningWord}
WordTab == WordCategory \cup {"all"}

\* --------------------------------------------------------------- strings
\* "Idot" is U+0130, the capital I with a dot: its lower case is two code
\* units, i and the combining dot U+0307 ("dot")
LowerChar(c) ==
    CASE c = "A" -> <<"a">> [] c = "X" -> <<"x">> [] c = "Idot" -> <<"i", "dot">>
      [] OTHER -> <<c>>

RECURSIVE toLowerCase(_)
toLowerCase(s) == IF s = <<>> THEN <<>> ELSE LowerChar(Head(s)) \o toLowerCase(Tail(s))

RECURSIVE trimStart(_)
trimStart(s) == IF s # <<>> /\ Head(s) = " " THEN trimStart(Tail(s)) ELSE s

RECURSIVE trimEnd(_)
trimEnd(s) == IF s # <<>> /\ s[Len(s)] = " " THEN trimEnd(SubSeq(s, 1, Len(s) - 1)) ELSE s

trim(s) == trimEnd(trimStart(s))

\* Raw headwords and translations a lookup can return; <<>> is a missing one.
HeadWords == {<<"a">>, <<"A", " ">>}
Translations == {<<"x">>, <<"y">>}

\* ----------------------------------------------------- array helpers (JS)
\* Array.prototype.find, as the index of the first match (0: undefined)
find(es, test(_)) ==
    LET hits == {i \in DOMAIN es : test(es[i])}
    IN IF hits = {} THEN 0 ELSE CHOOSE i \in hits : \A j \in hits : i <= j

ids(es) == {es[i].id : i \in DOMAIN es}

\* ------------------------------------------------------------- key match
\* e.text.toLowerCase().trim() === dText && e.translation?.trim() === dTrans
\* variant: the stored entry is compared as it is written
sameWordAsWritten(e, dText, dTrans) ==
    /\ e.text = dText
    /\ e.translation = dTrans

sameWord(e, dText, dTrans) ==
    /\ trim(toLowerCase(e.text)) = dText
    /\ trim(e.translation) = dTrans

\* variant: the two sides are compared as they are written
existsInKnownAsWritten(es, text, translation) ==
    \E i \in DOMAIN es :
        /\ es[i].category = KnownWord
        /\ es[i].text = text
        /\ es[i].translation = translation

existsInKnown(es, text, translation) ==
    \E i \in DOMAIN es :
        /\ es[i].category = KnownWord
        /\ trim(toLowerCase(es[i].text)) = trim(toLowerCase(text))
        /\ trim(es[i].translation) = trim(translation)

\* variant: only Learning is looked at
findInLearningOnly(es, text, translation) ==
    find(es, LAMBDA e :
        /\ e.category = LearningWord
        /\ trim(toLowerCase(e.text)) = trim(toLowerCase(text))
        /\ trim(e.translation) = trim(translation))

findInLearningOrWant(es, text, translation) ==
    find(es, LAMBDA e :
        /\ e.category \in {WantToLearnWord, LearningWord}
        /\ trim(toLowerCase(e.text)) = trim(toLowerCase(text))
        /\ trim(e.translation) = trim(translation))

\* ------------------------------------------------------ admission, locals
\* The locals of one admission batch: the two staging lists and the counters.
\* trace is the list of the branches taken, one per draft.
emptyBatch ==
    [ newEntriesToAdd |-> <<>>, entriesToUpdate |-> <<>>,
      successCount |-> 0, conflictCount |-> 0, duplicateCount |-> 0,
      failCount |-> 0, promotedCount |-> 0, trace |-> <<>> ]

\* useState<string>('all'): the scenario filter is left on all scenarios
selectedScenarioId == "all"

scenarioOf(selectedScenario) == IF selectedScenario = "all" THEN "1" ELSE selectedScenario

targetOf(tab) == IF tab = "all" THEN WantToLearnWord ELSE tab

newEntry(prefix, details, targetCategory, selectedScenario, stamp) ==
    [ id |-> <<prefix, stamp.n>>,
      text |-> details.text,
      translation |-> details.translation,
      category |-> targetCategory,
      addedAt |-> stamp.at,
      scenarioId |-> scenarioOf(selectedScenario) ]

promote(e) == [e EXCEPT !.category = LearningWord]

\* entries.find(e => e.category === category && key matches), as an index
findInCategory(es, category, dText, dTrans) ==
    find(es, LAMBDA e : e.category = category /\ sameWord(e, dText, dTrans))

\* variant: the entries staged in the batch are not looked at
existsInTargetOnly(es, newEntriesToAdd, targetCategory, dText, dTrans) ==
    \E i \in DOMAIN es : es[i].category = targetCategory /\ sameWord(es[i], dText, dTrans)

\* entries.some(...) || newEntriesToAdd.some(...) of the import
existsInTargetOrStaged(es, newEntriesToAdd, targetCategory, dText, dTrans) ==
    \/ \E i \in DOMAIN es : es[i].category = targetCategory /\ sameWord(es[i], dText, dTrans)
    \/ \E i \in DOMAIN newEntriesToAdd :
          /\ newEntriesToAdd[i].category = targetCategory
          /\ sameWord(newEntriesToAdd[i], dText, dTrans)

\* entries.some(...) of the manual add
existsInTarget(es, targetCategory, dText, dTrans) ==
    \E i \in DOMAIN es : es[i].category = targetCategory /\ sameWord(es[i], dText, dTrans)

\* variant: the entries staged in the batch are not looked at
stagedNever(newEntriesToAdd, dText, dTrans) == FALSE

\* newEntriesToAdd.some(...) of the manual add
stagedInAdd(newEntriesToAdd, dText, dTrans) ==
    \E i \in DOMAIN newEntriesToAdd : sameWord(newEntriesToAdd[i], dText, dTrans)

\* variant: only the headword is looked at
missingText(details) == details.text = <<>>

\* !details.text || !details.translation
missing(details) == details.text = <<>> \/ details.translation = <<>>

\* variant: the promotion is looked at before the exclusivity
importDraftPromoteFirst(b, details, targetCategory, es, selectedScenario, stamp) ==
    LET dText == trim(toLowerCase(details.text))
        dTrans == trim(details.translation)
        existingWant == findInCategory(es, WantToLearnWord, dText, dTrans)
        existingLearning == findInCategory(es, LearningWord, dText, dTrans)
    IN
    IF missing(details)
    THEN [b EXCEPT !.trace = Append(@, "skip")]
    ELSE IF targetCategory = LearningWord /\ existingWant # 0
    THEN IF ~\E i \in DOMAIN b.entriesToUpdate : b.entriesToUpdate[i].id = es[existingWant].id
         THEN [b EXCEPT !.entriesToUpdate = Append(@, promote(es[existingWant])),
                        !.promotedCount = @ + 1,
                        !.trace = Append(@, "promote")]
         ELSE [b EXCEPT !.trace = Append(@, "promoted")]
    ELSE IF /\ targetCategory \in {WantToLearnWord, LearningWord}
            /\ existsInKnown(es, details.text, details.translation)
    THEN [b EXCEPT !.conflictCount = @ + 1, !.trace = Append(@, "conflict")]
    ELSE IF /\ targetCategory = KnownWord
            /\ findInLearningOrWant(es, details.text, details.translation) # 0
    THEN [b EXCEPT !.conflictCount = @ + 1, !.trace = Append(@, "conflict")]
    ELSE IF targetCategory = WantToLearnWord /\ existingLearning # 0
    THEN [b EXCEPT !.duplicateCount = @ + 1, !.trace = Append(@, "subset")]
    ELSE IF existsInTargetOrStaged(es, b.newEntriesToAdd, targetCategory, dText, dTrans)
    THEN [b EXCEPT !.duplicateCount = @ + 1, !.trace = Append(@, "duplicate")]
    ELSE [b EXCEPT !.newEntriesToAdd =
                        Append(@, newEntry("import", details, targetCategory, selectedScenario, stamp)),
                   !.successCount = @ + 1,
                   !.trace = Append(@, "new")]

\* One iteration of the inner loop of handleImportFile.
importDraft(b, details, targetCategory, es, selectedScenario, stamp) ==
    LET dText == trim(toLowerCase(details.text))
        dTrans == trim(details.translation)
        existingWant == findInCategory(es, WantToLearnWord, dText, dTrans)
        existingLearning == findInCategory(es, LearningWord, dText, dTrans)
    IN
    IF missing(details)
    THEN [b EXCEPT !.trace = Append(@, "skip")]
    ELSE IF /\ targetCategory \in {WantToLearnWord, LearningWord}
            /\ existsInKnown(es, details.text, details.translation)
    THEN [b EXCEPT !.conflictCount = @ + 1, !.trace = Append(@, "conflict")]
    ELSE IF /\ targetCategory = KnownWord
            /\ findInLearningOrWant(es, details.text, details.translation) # 0
    THEN [b EXCEPT !.conflictCount = @ + 1, !.trace = Append(@, "conflict")]
    ELSE IF targetCategory = LearningWord /\ existingWant # 0
    THEN IF ~\E i \in DOMAIN b.entriesToUpdate : b.entriesToUpdate[i].id = es[existingWant].id
         THEN [b EXCEPT !.entriesToUpdate = Append(@, promote(es[existingWant])),
                        !.promotedCount = @ + 1,
                        !.trace = Append(@, "promote")]
         ELSE [b EXCEPT !.trace = Append(@, "promoted")]
    ELSE IF targetCategory = WantToLearnWord /\ existingLearning # 0
    THEN [b EXCEPT !.duplicateCount = @ + 1, !.trace = Append(@, "subset")]
    ELSE IF existsInTargetOrStaged(es, b.newEntriesToAdd, targetCategory, dText, dTrans)
    THEN [b EXCEPT !.duplicateCount = @ + 1, !.trace = Append(@, "duplicate")]
    ELSE [b EXCEPT !.newEntriesToAdd =
                        Append(@, newEntry("import", details, targetCategory, selectedScenario, stamp)),
                   !.successCount = @ + 1,
                   !.trace = Append(@, "new")]

\* One iteration of the loop of handleAddWord.
addDraft(b, details, targetCategory, es, selectedScenario, stamp) ==
    LET dText == trim(toLowerCase(details.text))
        dTrans == trim(details.translation)
        existingWant == findInCategory(es, WantToLearnWord, dText, dTrans)
        existingLearning == findInCategory(es, LearningWord, dText, dTrans)
    IN
    IF missing(details)
    THEN [b EXCEPT !.trace = Append(@, "skip")]
    ELSE IF /\ targetCategory \in {WantToLearnWord, LearningWord}
            /\ existsInKnown(es, details.text, details.translation)
    THEN [b EXCEPT !.conflictCount = @ + 1, !.trace = Append(@, "conflict")]
    ELSE IF /\ targetCategory = KnownWord
            /\ findInLearningOrWant(es, details.text, details.translation) # 0
    THEN [b EXCEPT !.conflictCount = @ + 1, !.trace = Append(@, "conflict")]
    ELSE IF targetCategory = LearningWord /\ existingWant # 0
    THEN IF ~\E i \in DOMAIN b.entriesToUpdate : b.entriesToUpdate[i].id = es[existingWant].id
         THEN [b EXCEPT !.entriesToUpdate = Append(@, promote(es[existingWant])),
                        !.promotedCount = @ + 1,
                        !.trace = Append(@, "promote")]
         ELSE [b EXCEPT !.trace = Append(@, "promoted")]
    ELSE IF targetCategory = WantToLearnWord /\ existingLearning # 0
    THEN [b EXCEPT !.duplicateCount = @ + 1, !.trace = Append(@, "subset")]
    ELSE IF existsInTarget(es, targetCategory, dText, dTrans)
    THEN [b EXCEPT !.duplicateCount = @ + 1, !.trace = Append(@, "duplicate")]
    ELSE IF stagedInAdd(b.newEntriesToAdd, dText, dTrans)
    THEN [b EXCEPT !.trace = Append(@, "staged")]
    ELSE [b EXCEPT !.newEntriesToAdd =
                        Append(@, newEntry("manual", details, targetCategory, selectedScenario, stamp)),
                   !.trace = Append(@, "new")]

\* for (const details of detailsList) { ... }, from draft k on
RECURSIVE importDrafts(_, _, _, _, _, _, _)
importDrafts(b, detailsList, k, targetCategory, es, selectedScenario, stamps) ==
    IF k > Len(detailsList) THEN b
    ELSE importDrafts(importDraft(b, detailsList[k], targetCategory, es, selectedScenario, stamps[k]),
                      detailsList, k + 1, targetCategory, es, selectedScenario, stamps)

RECURSIVE addDrafts(_, _, _, _, _, _, _)
addDrafts(b, detailsList, k, targetCategory, es, selectedScenario, stamps) ==
    IF k > Len(detailsList) THEN b
    ELSE addDrafts(addDraft(b, detailsList[k], targetCategory, es, selectedScenario, stamps[k]),
                   detailsList, k + 1, targetCategory, es, selectedScenario, stamps)

\* next.map(p => entriesToUpdate.find(u => u.id === p.id) || p)
applyUpdates(prev, entriesToUpdate) ==
    [i \in DOMAIN prev |->
        LET u == find(entriesToUpdate, LAMBDA x : x.id = prev[i].id)
        IN IF u # 0 THEN entriesToUpdate[u] ELSE prev[i]]

\* ------------------------------------------------------------------ state
VARIABLES
    entries,       \* WordEntry[], the collection (props.entries)
    activeTab,     \* useState<WordTab>
    toast,         \* useState<ToastMessage | null>
    imp,           \* the import in flight: its closure and its locals
    res,           \* the lookup in flight in the background script
    last           \* history: the last handler step, its input and its locals

vars == <<entries, activeTab, toast, imp, res, last>>

idleImport ==
    [ pc |-> "idle", targetCategory |-> WantToLearnWord, entries |-> <<>>,
      remaining |-> 0, room |-> 0, batch |-> emptyBatch ]

noOutcome == [kind |-> "none", detailsList |-> <<>>]

\* before, staged and target are the collection, the locals of the batch and
\* the target category before the step
noOp ==
    [ op |-> "none", sel |-> {}, outcome |-> noOutcome, batch |-> emptyBatch,
      before |-> <<>>, staged |-> emptyBatch, target |-> WantToLearnWord ]

\* fetchEnglishDictionaryData returns DictData | null
null == [null |-> TRUE]

noResponse == [kind |-> "none", text |-> <<>>, meanings |-> <<>>]

\* No lookup is in flight.
idleLookup ==
    [ pc |-> "idle", engine |-> "custom-mock", preferredTranslation |-> <<>>,
      allDicts |-> <<>>, enabledDicts |-> <<>>, tried |-> <<>>, dictData |-> null,
      response |-> noResponse ]

Toast(type, text, args) == [ type |-> type, text |-> text, args |-> args ]

\* ------------------------------------------------- the starting collection
\* The collections the handlers leave behind: entries created by an import or
\* by a manual add, in any category; two entries with the same key are copies
\* of one record (what applyUpdates makes of entries that share an id).
keyOf(e) == <<trim(toLowerCase(e.text)), trim(e.translation)>>

StoredEntries ==
    { [ id |-> o.id, text |-> t, translation |-> tr, category |-> c,
        addedAt |-> o.addedAt, scenarioId |-> o.scenarioId ] :
        o \in { [id |-> <<"import", "s1">>, addedAt |-> 1, scenarioId |-> "1"],
                [id |-> <<"manual", "s1">>, addedAt |-> 2, scenarioId |-> "2"] },
        t \in HeadWords, tr \in Translations, c \in WordCategory }

RECURSIVE SeqsUpTo(_, _)
SeqsUpTo(S, n) ==
    IF n = 0 THEN {<<>>}
    ELSE LET shorter == SeqsUpTo(S, n - 1)
         IN shorter \cup {Append(q, x) : q \in {r \in shorter : Len(r) = n - 1}, x \in S}

\* One entry for each key at most, or one record twice.  The translations are
\* interchangeable: the first entry has the first of them.
Collections ==
    { es \in SeqsUpTo(StoredEntries, 2) :
        /\ \A i, j \in DOMAIN es : keyOf(es[i]) = keyOf(es[j]) => es[i] = es[j]
        /\ es # <<>> => es[1].translation = <<"x">> }

Init ==
    /\ entries \in Collections
    /\ activeTab \in WordTab
    /\ toast = Toast("none", "none", <<>>)
    /\ imp = idleImport
    /\ res = idleLookup
    /\ last = noOp

\* --------------------------------------------------------------- UI state
filteredEntries ==
    SelectSeq(entries, LAMBDA e :
        activeTab # "all" =>
            IF activeTab = WantToLearnWord
            THEN e.category \in {WantToLearnWord, LearningWord}
            ELSE e.category = activeTab)

setActiveTab(tab) ==
    /\ tab # activeTab
    /\ activeTab' = tab
    /\ UNCHANGED <<entries, toast, imp, last>>

\* ------------------------------------------------------- delete and move
\* variant: the entry goes back to the default scenario
demoteToDefaultScenario(e) == [e EXCEPT !.category = WantToLearnWord, !.scenarioId = "1"]

\* { ...e, category: WordCategory.WantToLearnWord }
demote(e) == [e EXCEPT !.category = WantToLearnWord]

\* variant: only the entries of WantToLearn and of Known are removed
removeSelectedButLearning(prev, selectedWords) ==
    SelectSeq(prev, LAMBDA e : e.id \notin selectedWords \/ e.category = LearningWord)

\* variant: the entries with the headword of a selected entry go too
removeSelectedHeadwords(prev, selectedWords) ==
    SelectSeq(prev, LAMBDA e :
        \A i \in DOMAIN prev :
            prev[i].id \in selectedWords
                => trim(toLowerCase(prev[i].text)) # trim(toLowerCase(e.text)))

\* prev.filter(e => !selectedWords.has(e.id))
removeSelected(prev, selectedWords) == SelectSeq(prev, LAMBDA e : e.id \notin selectedWords)

\* variant: the moved entry goes to the default scenario
moveToDefaultScenario(e, targetCategory) ==
    [e EXCEPT !.category = targetCategory, !.scenarioId = "1"]

\* { ...e, category: targetCategory }
moveTo(e, targetCategory) == [e EXCEPT !.category = targetCategory]

\* selectedWords is a parameter: the selection is made on the visible entries
\* (toggleSelectGroup, toggleSelectAll) and is cleared by the handler.
handleDeleteSelected(selectedWords, confirmed) ==
    /\ selectedWords # {}
    /\ selectedWords \subseteq ids(filteredEntries)
    /\ IF ~confirmed
       THEN UNCHANGED <<entries, toast, last>>
       ELSE IF activeTab = LearningWord
       THEN /\ entries' = [i \in DOMAIN entries |->
                              IF entries[i].id \in selectedWords
                              THEN demote(entries[i])
                              ELSE entries[i]]
            /\ toast' = Toast("success", "movedBackToWant", <<>>)
            /\ last' = [noOp EXCEPT !.op = "delete", !.sel = selectedWords, !.before = entries]
       ELSE /\ entries' = removeSelected(entries, selectedWords)
            /\ toast' = Toast("success", "deleted", <<>>)
            /\ last' = [noOp EXCEPT !.op = "delete", !.sel = selectedWords, !.before = entries]
    /\ UNCHANGED <<activeTab, imp>>

handleBatchMove(selectedWords, targetCategory) ==
    /\ selectedWords # {}
    /\ selectedWords \subseteq ids(filteredEntries)
    /\ activeTab # "all"
    /\ targetCategory # activeTab
    /\ entries' = [i \in DOMAIN entries |->
                      IF entries[i].id \in selectedWords
                      THEN moveTo(entries[i], targetCategory)
                      ELSE entries[i]]
    /\ toast' = Toast("success", "moved", <<>>)
    /\ last' = [noOp EXCEPT !.op = "move", !.sel = selectedWords, !.before = entries,
                             !.target = targetCategory]
    /\ UNCHANGED <<activeTab, imp>>

\* -------------------------------------------------------------- lookups
\* The suffix of a new id (Date.now() and the random part) and the Date.now()
\* of addedAt, as the platform gives them.
Suffixes == {"s1", "s2"}

Stamp == [n : Suffixes, at : 1..MaxClock]

stamp0 == [n |-> "s1", at |-> 1]

\* The stamps of n entries created in one synchronous run: Date.now() does
\* not go back.
RECURSIVE StampSeqs(_)
StampSeqs(n) ==
    IF n = 0 THEN {<<>>}
    ELSE { Append(p[1], p[2]) :
             p \in { p \in StampSeqs(n - 1) \X Stamp : n > 1 => p[1][n - 1].at <= p[2].at } }

\* the stamps of the entries of one lookup, by their number
StampSeqsUpTo == [n \in 0..MaxSenses |-> StampSeqs(n)]

\* One stamp per draft; only the drafts that create an entry (trace "new")
\* read theirs.
Stamps(trace) ==
    LET news(k) == Cardinality({j \in 1..k : trace[j] = "new"})
    IN { [k \in DOMAIN trace |-> IF trace[k] = "new" THEN q[news(k)] ELSE stamp0] :
           q \in StampSeqsUpTo[news(Len(trace))] }

noStamps(detailsList) == [k \in DOMAIN detailsList |-> stamp0]

\* What fetchWordDetails gives for one candidate: it throws, or it returns
\* one draft per selected sense, all with the headword of the result.
DetailsLists ==
    { [i \in DOMAIN ts |-> [text |-> t, translation |-> ts[i]]] :
        t \in HeadWords, ts \in SeqsUpTo(Translations \cup {<<>>}, MaxSenses) }
    \cup { << [text |-> <<>>, translation |-> tr] >> : tr \in Translations }

Thrown == [kind |-> "throw", detailsList |-> <<>>]

NoText == [kind |-> "notext", detailsList |-> <<>>]

LookupOutcomes == {Thrown} \cup {[kind |-> "ok", detailsList |-> d] : d \in DetailsLists}

\* ---------------------------------------------------------------- import
\* variant: the new entries are put in front
commitImportInFront(b) ==
    IF Len(b.newEntriesToAdd) > 0 \/ Len(b.entriesToUpdate) > 0
    THEN /\ entries' = b.newEntriesToAdd \o applyUpdates(entries, b.entriesToUpdate)
         /\ toast' = Toast("success", "importDone",
                           <<b.successCount, b.promotedCount, b.duplicateCount,
                             b.conflictCount, b.failCount>>)
    ELSE /\ entries' = entries
         /\ toast' = Toast("warning", "importNothing", <<>>)

\* variant: the commit is computed from the collection of the start
commitImportFromClosure(b) ==
    IF Len(b.newEntriesToAdd) > 0 \/ Len(b.entriesToUpdate) > 0
    THEN /\ entries' = applyUpdates(imp.entries, b.entriesToUpdate) \o b.newEntriesToAdd
         /\ toast' = Toast("success", "importDone",
                           <<b.successCount, b.promotedCount, b.duplicateCount,
                             b.conflictCount, b.failCount>>)
    ELSE /\ entries' = entries
         /\ toast' = Toast("warning", "importNothing", <<>>)

commitImport(b) ==
    IF Len(b.newEntriesToAdd) > 0 \/ Len(b.entriesToUpdate) > 0
    THEN /\ entries' = applyUpdates(entries, b.entriesToUpdate) \o b.newEntriesToAdd
         /\ toast' = Toast("success", "importDone",
                           <<b.successCount, b.promotedCount, b.duplicateCount,
                             b.conflictCount, b.failCount>>)
    ELSE /\ entries' = entries
         /\ toast' = Toast("warning", "importNothing", <<>>)

\* variant: without an engine the error is shown and the import goes on
importStartAnyway(nCandidates, hasEngine) ==
    /\ imp.pc = "idle"
    /\ activeTab # "all"
    /\ IF ~hasEngine
       THEN /\ nCandidates = 0
            /\ toast' = Toast("error", "noEngine", <<>>)
            /\ imp' = [ pc |-> "loop", targetCategory |-> targetOf(activeTab),
                        entries |-> entries, remaining |-> 1, room |-> MaxSenses + 1,
                        batch |-> emptyBatch ]
            /\ last' = [noOp EXCEPT !.op = "importNoEngine", !.before = entries]
            /\ UNCHANGED entries
       ELSE IF nCandidates = 0
       THEN /\ commitImport(emptyBatch)
            /\ last' = [noOp EXCEPT !.op = "importCommit", !.before = entries,
                                     !.target = targetOf(activeTab)]
            /\ UNCHANGED imp
       ELSE /\ imp' = [ pc |-> "loop", targetCategory |-> targetOf(activeTab),
                        entries |-> entries, remaining |-> nCandidates, room |-> MaxSenses + 1,
                        batch |-> emptyBatch ]
            /\ toast' = Toast("info", "importStart", <<nCandidates>>)
            /\ last' = [noOp EXCEPT !.op = "importStart"]
            /\ UNCHANGED entries
    /\ UNCHANGED activeTab

\* reader.onload up to the first lookup
importStart(nCandidates, hasEngine) ==
    /\ imp.pc = "idle"
    /\ activeTab # "all"
    /\ IF ~hasEngine
       THEN /\ nCandidates = 0
            /\ toast' = Toast("error", "noEngine", <<>>)
            /\ last' = [noOp EXCEPT !.op = "importNoEngine", !.before = entries]
            /\ UNCHANGED <<entries, imp>>
       ELSE IF nCandidates = 0
       THEN /\ commitImport(emptyBatch)
            /\ last' = [noOp EXCEPT !.op = "importCommit", !.before = entries,
                                     !.target = targetOf(activeTab)]
            /\ UNCHANGED imp
       ELSE /\ imp' = [ pc |-> "loop", targetCategory |-> targetOf(activeTab),
                        entries |-> entries, remaining |-> nCandidates, room |-> MaxSenses + 1,
                        batch |-> emptyBatch ]
            /\ toast' = Toast("info", "importStart", <<nCandidates>>)
            /\ last' = [noOp EXCEPT !.op = "importStart"]
            /\ UNCHANGED entries
    /\ UNCHANGED activeTab

\* variant: a lookup that throws ends the batch and drops what was staged
importRunAbortOnThrow(outcome, stamps) ==
    IF outcome.kind = "notext" THEN [imp.batch EXCEPT !.trace = <<>>]
    ELSE IF outcome.kind = "throw"
    THEN [emptyBatch EXCEPT !.failCount = imp.batch.failCount + 1]
    ELSE importDrafts([imp.batch EXCEPT !.trace = <<>>], outcome.detailsList, 1,
                      imp.targetCategory, imp.entries, selectedScenarioId, stamps)

importRun(outcome, stamps) ==
    IF outcome.kind = "notext" THEN [imp.batch EXCEPT !.trace = <<>>]
    ELSE IF outcome.kind = "throw" THEN [imp.batch EXCEPT !.failCount = @ + 1, !.trace = <<>>]
    ELSE importDrafts([imp.batch EXCEPT !.trace = <<>>], outcome.detailsList, 1,
                      imp.targetCategory, imp.entries, selectedScenarioId, stamps)

\* one iteration of for (const candidate of candidates), and after the last
\* one the batch update of the state
importCandidate(outcome) ==
    /\ imp.pc = "loop"
    /\ Len(outcome.detailsList) <= imp.room
    /\ \E stamps \in Stamps(importRun(outcome, noStamps(outcome.detailsList)).trace) :
          LET b == importRun(outcome, stamps)
          IN IF imp.remaining > 1
             THEN /\ imp' = [imp EXCEPT !.remaining = @ - 1,
                                         !.room = @ - Len(outcome.detailsList),
                                         !.batch = [b EXCEPT !.trace = <<>>]]
                  /\ last' = [noOp EXCEPT !.op = "importCandidate"]
                  /\ UNCHANGED <<entries, toast>>
             ELSE /\ commitImport(b)
                  /\ imp' = idleImport
                  /\ last' = [ op |-> "importCommit", sel |-> {}, outcome |-> outcome,
                                batch |-> b, before |-> entries, staged |-> imp.batch,
                                target |-> imp.targetCategory ]
    /\ UNCHANGED activeTab

\* ------------------------------------------------------------ manual add
addRun(outcome, stamps) ==
    addDrafts(emptyBatch, outcome.detailsList, 1, targetOf(activeTab), entries,
              selectedScenarioId, stamps)

handleAddWord(hasEngine, outcome) ==
    /\ activeTab # "all"
    /\ IF ~hasEngine
       THEN /\ outcome = Thrown
            /\ toast' = Toast("error", "noEngine", <<>>)
            /\ last' = [noOp EXCEPT !.op = "addNoEngine", !.before = entries]
            /\ UNCHANGED entries
       ELSE IF outcome.kind = "throw"
       THEN /\ toast' = Toast("error", "lookupFailed", <<>>)
            /\ last' = [noOp EXCEPT !.op = "add", !.outcome = outcome, !.before = entries,
                                     !.target = targetOf(activeTab)]
            /\ UNCHANGED entries
       ELSE IF Len(outcome.detailsList) = 0
       THEN /\ toast' = Toast("error", "noDetails", <<>>)
            /\ last' = [noOp EXCEPT !.op = "add", !.outcome = outcome, !.before = entries,
                                     !.target = targetOf(activeTab)]
            /\ UNCHANGED entries
       ELSE \E stamps \in Stamps(addRun(outcome, noStamps(outcome.detailsList)).trace) :
              LET b == addRun(outcome, stamps)
              IN /\ IF Len(b.newEntriesToAdd) > 0 \/ Len(b.entriesToUpdate) > 0
                    THEN /\ entries' = b.newEntriesToAdd \o applyUpdates(entries, b.entriesToUpdate)
                         /\ toast' = IF b.conflictCount > 0 \/ b.duplicateCount > 0
                                     THEN Toast("success", "addedWithSkips",
                                                <<Len(b.newEntriesToAdd), b.promotedCount,
                                                  b.conflictCount + b.duplicateCount>>)
                                     ELSE Toast("success",
                                                IF Len(b.newEntriesToAdd) > 0 THEN "addedNew"
                                                ELSE "addedPromoted", <<>>)
                    ELSE /\ UNCHANGED entries
                         /\ toast' = IF b.conflictCount > 0
                                     THEN Toast("warning", "inOtherList", <<>>)
                                     ELSE IF b.duplicateCount > 0
                                     THEN Toast("warning", "inThisList", <<>>)
                                     ELSE toast
                 /\ last' = [ op |-> "add", sel |-> {}, outcome |-> outcome, batch |-> b,
                               before |-> entries, staged |-> emptyBatch,
                               target |-> targetOf(activeTab) ]
    /\ UNCHANGED <<activeTab, imp>>

\* ------------------------------------------------------- specification
\* One handler runs to completion on the starting collection; while an import
\* awaits its lookups no other handler is started.
Fresh == last.op = "none" /\ imp.pc = "idle"

Next ==
    \/ /\ Fresh
       /\ \E tab \in WordTab : setActiveTab(tab)
       /\ UNCHANGED res
    \/ /\ Fresh
       /\ \E sel \in SUBSET ids(entries), confirmed \in BOOLEAN :
             handleDeleteSelected(sel, confirmed)
       /\ UNCHANGED res
    \/ /\ Fresh
       /\ \E sel \in SUBSET ids(entries), c \in WordCategory : handleBatchMove(sel, c)
       /\ UNCHANGED res
    \/ /\ Fresh
       /\ \E n \in 0..MaxCandidates, hasEngine \in BOOLEAN : importStart(n, hasEngine)
       /\ UNCHANGED res
    \/ /\ imp.pc = "loop"
       /\ \E outcome \in LookupOutcomes \cup {NoText} : importCandidate(outcome)
       /\ UNCHANGED res
    \/ /\ Fresh
       /\ \E hasEngine \in BOOLEAN, outcome \in LookupOutcomes : handleAddWord(hasEngine, outcome)
       /\ UNCHANGED res

Spec == Init /\ [][Next]_vars

\* --------------------------------------- dictionaries (background script)
MaxPriority == 2

\* the dictionaries that fetchEnglishDictionaryData knows, as the storage
\* lists them
DictionaryIds == <<"iciba", "youdao", "free-dict", "wiktionary">>

\* dictionariesStorage.getValue(): each dictionary is disabled, or enabled
\* with a priority
AllDicts ==
    { [i \in DOMAIN DictionaryIds |->
          [ id |-> DictionaryIds[i], isEnabled |-> c[i] > 0,
            priority |-> IF c[i] > 0 THEN c[i] ELSE 1 ]] :
        c \in [DOMAIN DictionaryIds -> 0..MaxPriority] }

\* Array.prototype.sort((a, b) => a.priority - b.priority): stable
RECURSIVE sortByPriority(_)
sortByPriority(ds) ==
    IF ds = <<>> THEN <<>>
    ELSE LET m == CHOOSE i \in DOMAIN ds :
                     \A j \in DOMAIN ds :
                         \/ ds[j].priority > ds[i].priority
                         \/ ds[j].priority = ds[i].priority /\ j >= i
         IN <<ds[m]>> \o sortByPriority(SubSeq(ds, 1, m - 1) \o SubSeq(ds, m + 1, Len(ds)))

enabledDictsOf(allDicts) == sortByPriority(SelectSeq(allDicts, LAMBDA d : d.isEnabled))

\* What a dictionary answers.  container: the JSON has the part that holds the
\* entry (symbols[0] of iciba, data[0] of the free dictionary); phonetic and
\* senses: what that part gives.
noPayload == [container |-> FALSE, phonetic |-> FALSE, senses |-> <<>>]

Payloads ==
    {noPayload} \cup
    { [container |-> TRUE, phonetic |-> ph, senses |-> ss] :
        ph \in BOOLEAN, ss \in SeqsUpTo(Translations, MaxSenses) }

\* fetch rejects or the JSON is malformed (throw), res.ok is false (notOk), or
\* the JSON is parsed (ok)
Replies ==
    {[kind |-> k, payload |-> noPayload] : k \in {"throw", "notOk"}}
    \cup {[kind |-> "ok", payload |-> pl] : pl \in Payloads}

\* the dictionary is not fetched
noFetch == [kind |-> "none", payload |-> noPayload]

\* the DictData that the three adapters return
dictDataOf(payload) ==
    [ phoneticUs |-> IF payload.phonetic THEN "/p/" ELSE "",
      definitions |-> [i \in DOMAIN payload.senses |->
                          [part |-> <<>>, means |-> payload.senses[i]]] ]

\* continue: the loop goes on to the next dictionary
skip == [skip |-> TRUE]

\* One iteration of for (const dict of enabledDicts): a DictData, or skip.
fetchFrom(id, reply) ==
    IF reply.kind = "throw" THEN skip
    ELSE IF id = "iciba"
    THEN IF reply.kind = "notOk" THEN skip
         ELSE IF ~reply.payload.container THEN skip
         ELSE dictDataOf(reply.payload)
    ELSE IF id = "youdao"
    THEN IF reply.kind = "notOk" THEN skip
         ELSE dictDataOf(reply.payload)
    ELSE IF id = "free-dict"
    THEN IF reply.kind = "notOk" THEN skip
         ELSE IF ~reply.payload.container THEN skip
         ELSE dictDataOf(reply.payload)
    ELSE skip

\* const dictData = await fetchEnglishDictionaryData(text), up to the loop
fetchStart ==
    /\ res.pc = "lookup"
    /\ res.engine # "custom-mock"
    /\ LET enabledDicts == enabledDictsOf(res.allDicts)
       IN res' = IF enabledDicts = <<>>
                 THEN [res EXCEPT !.pc = "resolved", !.dictData = null]
                 ELSE [res EXCEPT !.pc = "resolve", !.enabledDicts = enabledDicts]
    /\ UNCHANGED <<entries, activeTab, toast, imp, last>>

\* one iteration of the loop, and return null after the last one
fetchDict(reply) ==
    /\ res.pc = "resolve"
    /\ LET k == Len(res.tried) + 1
           dict == res.enabledDicts[k]
           got == fetchFrom(dict.id, reply)
           tried == Append(res.tried, [id |-> dict.id, reply |-> reply])
       IN /\ (reply = noFetch) <=> (dict.id \notin {"iciba", "youdao", "free-dict"})
          /\ res' = IF got # skip
                    THEN [res EXCEPT !.pc = "resolved", !.tried = tried, !.dictData = got]
                    ELSE IF k = Len(res.enabledDicts)
                    THEN [res EXCEPT !.pc = "resolved", !.tried = tried, !.dictData = null]
                    ELSE [res EXCEPT !.tried = tried]
    /\ UNCHANGED <<entries, activeTab, toast, imp, last>>

\* ------------------------------------------------- LOOKUP_WORD (background)
Engines == {"custom-mock", "tencent", "other"}

\* res.Response?.TargetText || "API Error"
apiError == <<"A", "P", "I", " ", "E", "r", "r", "o", "r">>

\* callTencentTranslation: it throws, or it gives a TargetText (or none)
Translated ==
    {[kind |-> "throw", TargetText |-> <<>>]}
    \cup {[kind |-> "ok", TargetText |-> t] : t \in Translations \cup {<<>>}}

\* def.part ? `${def.part} ${def.means.join('; ')}` : def.means.join('; '), trimmed
formattedTranslation(def) ==
    trim(IF def.part # <<>> THEN def.part \o <<" ">> \o def.means ELSE def.means)

success(text, meanings) == [kind |-> "success", text |-> text, meanings |-> meanings]

failure == [kind |-> "failure", text |-> <<>>, meanings |-> <<>>]

\* engine.id === 'custom-mock': the dictionaries are not asked
lookupMock(text) ==
    /\ res.pc = "lookup"
    /\ res.engine = "custom-mock"
    /\ res' = [res EXCEPT !.pc = "responded",
                          !.response =
                              success(text, << IF res.preferredTranslation # <<>>
                                               THEN res.preferredTranslation
                                               ELSE <<"x">> >>)]
    /\ UNCHANGED <<entries, activeTab, toast, imp, last>>

\* variant: without the catch, a translation call that throws leaves the
\* request without a response
lookupRespondUncaught(text, translated) ==
    /\ res.pc = "resolved"
    /\ res' =
         [res EXCEPT !.pc = "responded",
                     !.response =
                         IF res.dictData # null /\ Len(res.dictData.definitions) > 0
                         THEN success(text, [i \in DOMAIN res.dictData.definitions |->
                                                formattedTranslation(res.dictData.definitions[i])])
                         ELSE IF res.engine = "tencent"
                         THEN IF translated.kind = "throw" THEN noResponse
                              ELSE success(text, << IF translated.TargetText # <<>>
                                                    THEN translated.TargetText
                                                    ELSE apiError >>)
                         ELSE success(text, <<>>)]
    /\ UNCHANGED <<entries, activeTab, toast, imp, last>>

\* the handler after fetchEnglishDictionaryData, up to sendResponse
lookupRespond(text, translated) ==
    /\ res.pc = "resolved"
    /\ res' =
         [res EXCEPT !.pc = "responded",
                     !.response =
                         IF res.dictData # null /\ Len(res.dictData.definitions) > 0
                         THEN success(text, [i \in DOMAIN res.dictData.definitions |->
                                                formattedTranslation(res.dictData.definitions[i])])
                         ELSE IF res.engine = "tencent"
                         THEN IF translated.kind = "throw" THEN failure
                              ELSE success(text, << IF translated.TargetText # <<>>
                                                    THEN translated.TargetText
                                                    ELSE apiError >>)
                         ELSE success(text, <<>>)]
    /\ UNCHANGED <<entries, activeTab, toast, imp, last>>

\* ------------------------------------------------------ fetchWordDetails
min(a, b) == IF a < b THEN a ELSE b

\* the inner loop of editDistance for row i > 0, from column j on: costs is
\* the array (from 0), lastValue the value of the column before in the row;
\* after the loop costs[s2.length] = lastValue
RECURSIVE costsRow(_, _, _, _, _, _)
costsRow(s1, s2, i, j, costs, lastValue) ==
    IF j > Len(s2) THEN [costs EXCEPT ![Len(s2)] = lastValue]
    ELSE LET newValue == IF s1[i] # s2[j]
                         THEN min(min(costs[j - 1], lastValue), costs[j]) + 1
                         ELSE costs[j - 1]
         IN costsRow(s1, s2, i, j + 1, [costs EXCEPT ![j - 1] = lastValue], newValue)

\* the outer loop of editDistance from row i > 0 on
RECURSIVE costsFrom(_, _, _, _)
costsFrom(s1, s2, i, costs) ==
    IF i > Len(s1) THEN costs
    ELSE costsFrom(s1, s2, i + 1, costsRow(s1, s2, i, 1, costs, i))

\* row 0 of costs is 0..s2.length
editDistance(s1, s2) ==
    LET a == toLowerCase(s1)
        b == toLowerCase(s2)
    IN costsFrom(a, b, 1, [j \in 0..Len(b) |-> j])[Len(b)]

\* variant: the first string is taken for the longer one
similarityToFirst(s1, s2) ==
    IF Len(s1) = 0 THEN <<1, 1>>
    ELSE <<Len(s1) - editDistance(s1, s2), Len(s1)>>

\* similarity as a fraction <<numerator, denominator>>
similarity(s1, s2) ==
    LET longer == IF Len(s1) > Len(s2) THEN s1 ELSE s2
        shorter == IF Len(s1) > Len(s2) THEN s2 ELSE s1
    IN IF Len(longer) = 0 THEN <<1, 1>>
       ELSE <<Len(longer) - editDistance(longer, shorter), Len(longer)>>

\* sorted[0] of the meanings sorted by scoreB - scoreA: the first of the best
closest(meanings, preferredTranslation) ==
    LET score(i) == similarity(meanings[i], preferredTranslation)
        better(i, j) == score(i)[1] * score(j)[2] > score(j)[1] * score(i)[2]
    IN meanings[CHOOSE i \in DOMAIN meanings :
                   /\ \A j \in DOMAIN meanings : ~better(j, i)
                   /\ \A j \in 1..(i - 1) : better(i, j)]

\* the candidate of the import has a translation, or none
Preferred == {<<>>, <<"y">>}

fetchWordDetails(response, preferredTranslation) ==
    IF response.kind = "none" THEN Thrown
    ELSE IF response.kind = "failure" THEN Thrown
    ELSE LET selectedMeanings ==
                 IF trim(preferredTranslation) # <<>> /\ Len(response.meanings) > 0
                 THEN <<closest(response.meanings, preferredTranslation)>>
                 ELSE response.meanings
         IN [ kind |-> "ok",
              detailsList |-> [i \in DOMAIN selectedMeanings |->
                                  [text |-> response.text, translation |-> selectedMeanings[i]]] ]

\* await fetchWordDetails(...) of the import and the classification of the
\* drafts; the background script has answered, or not (no response)
importLookedUp ==
    /\ res.pc = "responded"
    /\ \E response \in {res.response, noResponse} :
          importCandidate(fetchWordDetails(response, res.preferredTranslation))
    /\ res' = [res EXCEPT !.pc = "idle"]

\* An import into the empty collection, on the WantToLearn tab, is at the
\* lookup of its first candidate.
InitLookup ==
    /\ entries = <<>>
    /\ activeTab = WantToLearnWord
    /\ \E n \in 1..MaxCandidates :
          /\ imp = [ pc |-> "loop", targetCategory |-> WantToLearnWord, entries |-> <<>>,
                     remaining |-> n, room |-> MaxSenses + 1, batch |-> emptyBatch ]
          /\ toast = Toast("info", "importStart", <<n>>)
    /\ last = [noOp EXCEPT !.op = "importStart"]
    /\ res \in { [idleLookup EXCEPT !.pc = "lookup", !.engine = e,
                                    !.preferredTranslation = pt, !.allDicts = ds] :
                   e \in Engines, pt \in Preferred, ds \in AllDicts }

NextLookup ==
    \/ \E text \in HeadWords : lookupMock(text)
    \/ fetchStart
    \/ \E reply \in Replies \cup {noFetch} : fetchDict(reply)
    \/ \E text \in HeadWords, translated \in Translated : lookupRespond(text, translated)
    \/ importLookedUp

SpecLookup == InitLookup /\ [][NextLookup]_vars

\* The LOOKUP_WORD handler alone, from the request to sendResponse: each
\* await of the handler returns or throws.
NextHandler ==
    \/ \E text \in HeadWords : lookupMock(text)
    \/ fetchStart
    \/ \E reply \in Replies \cup {noFetch} : fetchDict(reply)
    \/ \E text \in HeadWords, translated \in Translated : lookupRespond(text, translated)

SpecHandler == InitLookup /\ [][NextHandler]_vars

\* ------------------------------------------ sentence assigner (background)
MaxSentences == 2

\* String.prototype.includes
includes(s, k) == \E i \in 0..(Len(s) - Len(k)) : SubSeq(s, i + 1, i + Len(k)) = k

\* variant: the indices that are used are not skipped
smartAssignSentenceReusing(sentences, definitionKeywords, usedIndices) ==
    LET matches == { i \in DOMAIN sentences :
                       /\ sentences[i].trans # <<>>
                       /\ \E k \in DOMAIN definitionKeywords :
                             /\ Len(definitionKeywords[k]) > 0
                             /\ includes(sentences[i].trans, definitionKeywords[k]) }
    IN IF sentences = <<>>
       THEN [sent |-> [orig |-> "", trans |-> <<>>], usedIndices |-> usedIndices, at |-> 0]
       ELSE IF matches # {}
       THEN LET i == CHOOSE i \in matches : \A j \in matches : i <= j
            IN [sent |-> sentences[i], usedIndices |-> usedIndices \cup {i}, at |-> i]
       ELSE IF usedIndices = {}
       THEN [sent |-> sentences[1], usedIndices |-> {1}, at |-> 1]
       ELSE [sent |-> [orig |-> "", trans |-> <<>>], usedIndices |-> usedIndices, at |-> 0]

\* variant: the last sentence that matches is taken
smartAssignSentenceLast(sentences, definitionKeywords, usedIndices) ==
    LET matches == { i \in DOMAIN sentences :
                       /\ i \notin usedIndices
                       /\ sentences[i].trans # <<>>
                       /\ \E k \in DOMAIN definitionKeywords :
                             /\ Len(definitionKeywords[k]) > 0
                             /\ includes(sentences[i].trans, definitionKeywords[k]) }
    IN IF sentences = <<>>
       THEN [sent |-> [orig |-> "", trans |-> <<>>], usedIndices |-> usedIndices, at |-> 0]
       ELSE IF matches # {}
       THEN LET i == CHOOSE i \in matches : \A j \in matches : i >= j
            IN [sent |-> sentences[i], usedIndices |-> usedIndices \cup {i}, at |-> i]
       ELSE IF usedIndices = {}
       THEN [sent |-> sentences[1], usedIndices |-> {1}, at |-> 1]
       ELSE [sent |-> [orig |-> "", trans |-> <<>>], usedIndices |-> usedIndices, at |-> 0]

\* variant: the first sentence is the fallback of every sense
smartAssignSentenceFallback(sentences, definitionKeywords, usedIndices) ==
    LET matches == { i \in DOMAIN sentences :
                       /\ i \notin usedIndices
                       /\ sentences[i].trans # <<>>
                       /\ \E k \in DOMAIN definitionKeywords :
                             /\ Len(definitionKeywords[k]) > 0
                             /\ includes(sentences[i].trans, definitionKeywords[k]) }
    IN IF sentences = <<>>
       THEN [sent |-> [orig |-> "", trans |-> <<>>], usedIndices |-> usedIndices, at |-> 0]
       ELSE IF matches # {}
       THEN LET i == CHOOSE i \in matches : \A j \in matches : i <= j
            IN [sent |-> sentences[i], usedIndices |-> usedIndices \cup {i}, at |-> i]
       ELSE [sent |-> sentences[1], usedIndices |-> usedIndices \cup {1}, at |-> 1]

\* return { orig: '', trans: '' }
noSentence == [orig |-> "", trans |-> <<>>]

\* smartAssignSentence: the sentence, the indices used after the call (the
\* set is changed in place) and, for the record, the index of the sentence
\* (from 1; 0: no sentence)
smartAssignSentence(sentences, definitionKeywords, usedIndices) ==
    LET matches == { i \in DOMAIN sentences :
                       /\ i \notin usedIndices
                       /\ sentences[i].trans # <<>>
                       /\ \E k \in DOMAIN definitionKeywords :
                             /\ Len(definitionKeywords[k]) > 0
                             /\ includes(sentences[i].trans, definitionKeywords[k]) }
    IN IF sentences = <<>>
       THEN [sent |-> noSentence, usedIndices |-> usedIndices, at |-> 0]
       ELSE IF matches # {}
       THEN LET i == CHOOSE i \in matches : \A j \in matches : i <= j
            IN [sent |-> sentences[i], usedIndices |-> usedIndices \cup {i}, at |-> i]
       ELSE IF usedIndices = {}
       THEN [sent |-> sentences[1], usedIndices |-> {1}, at |-> 1]
       ELSE [sent |-> noSentence, usedIndices |-> usedIndices, at |-> 0]

\* [,，;；] (the strings of the model have the ASCII forms)
Separators == {",", ";"}

\* m.split(/[,，;；]/)
RECURSIVE split(_)
split(s) ==
    IF \A i \in DOMAIN s : s[i] \notin Separators THEN <<s>>
    ELSE LET i == CHOOSE i \in DOMAIN s :
                     s[i] \in Separators /\ \A j \in 1..(i - 1) : s[j] \notin Separators
         IN <<SubSeq(s, 1, i - 1)>> \o split(SubSeq(s, i + 1, Len(s)))

\* [a-z]
LowerLetters ==
    { "a", "b", "c", "d", "e", "f", "g", "h", "i", "j", "k", "l", "m",
      "n", "o", "p", "q", "r", "s", "t", "u", "v", "w", "x", "y", "z" }

\* s.replace(/^[a-z]+\.\s*/, '')
removePos(s) ==
    LET n == Cardinality({i \in DOMAIN s : \A j \in 1..i : s[j] \in LowerLetters})
    IN IF n > 0 /\ n < Len(s) /\ s[n + 1] = "."
       THEN trimStart(SubSeq(s, n + 2, Len(s)))
       ELSE s

\* s.replace(/[open].*?[close]/g, '')
RECURSIVE removeEnclosed(_, _, _)
removeEnclosed(s, open, close) ==
    LET opens == { i \in DOMAIN s :
                     s[i] \in open /\ \E j \in (i + 1)..Len(s) : s[j] \in close }
    IN IF opens = {} THEN s
       ELSE LET i == CHOOSE i \in opens : \A h \in opens : i <= h
                j == CHOOSE j \in (i + 1)..Len(s) :
                         s[j] \in close /\ \A h \in (i + 1)..(j - 1) : s[h] \notin close
            IN SubSeq(s, 1, i - 1) \o removeEnclosed(SubSeq(s, j + 1, Len(s)), open, close)

\* means.flatMap(m => m.split(...))
RECURSIVE flatSplit(_)
flatSplit(means) ==
    IF means = <<>> THEN <<>> ELSE split(Head(means)) \o flatSplit(Tail(means))

extractKeywords(means) ==
    LET parts == flatSplit(means)
        cleaned == [i \in DOMAIN parts |->
                      trim(removeEnclosed(removeEnclosed(removePos(parts[i]), {"("}, {")"}),
                                          {"["}, {"]"}))]
    IN SelectSeq(cleaned, LAMBDA k : Len(k) > 0)

\* def.means.join('; ')
RECURSIVE join(_)
join(means) ==
    IF means = <<>> THEN <<>>
    ELSE IF Len(means) = 1 THEN Head(means)
    ELSE Head(means) \o <<";", " ">> \o join(Tail(means))

\* dictData.definitions.map((def, idx) => ...): the meanings, each with the
\* index of its sentence
RECURSIVE mapDefinitions(_, _, _)
mapDefinitions(definitions, validSentences, usedIndices) ==
    IF definitions = <<>> THEN <<>>
    ELSE LET def == Head(definitions)
             keywords == extractKeywords(def.means)
             got == smartAssignSentence(validSentences, keywords, usedIndices)
         IN << [ meaning |->
                   [ translation |-> formattedTranslation([part |-> def.part,
                                                           means |-> join(def.means)]),
                     partOfSpeech |-> def.part,
                     contextSentence |-> "",
                     mixedSentence |-> "",
                     dictionaryExample |-> got.sent.orig,
                     dictionaryExampleTranslation |-> got.sent.trans ],
                 at |-> got.at ] >>
            \o mapDefinitions(Tail(definitions), validSentences, got.usedIndices)

\* The means of a definition: characters in capitals are for the characters
\* of the translations, which [a-z] does not match.
MeansLists ==
    { << <<"n", ".", " ", "S", "J">> >>,
      << <<"v", ".", " ", "Y", "D">> >>,
      << <<"S">> >>,
      << <<"S", ";", "Y", "D">> >>,
      << <<"S", "(", "J", ")">>, <<"[", "a", "]", "Y">> >> }

\* the example sentences of a dictionary; free-dict has no translation
Sentences ==
    { [orig |-> "o1", trans |-> <<"T", "S", "J">>],
      [orig |-> "o2", trans |-> <<"Y", "D", "T">>],
      [orig |-> "o3", trans |-> <<"Z", "S">>],
      [orig |-> "o4", trans |-> <<>>] }

\* the handler from dictData.definitions.length > 0 to sendResponse
lookupAssign ==
    /\ res.pc = "assign"
    /\ LET mapped == mapDefinitions(res.dictData.definitions, res.dictData.sentences, {})
       IN res' = [res EXCEPT !.pc = "responded",
                             !.response = success(res.text,
                                                  [i \in DOMAIN mapped |-> mapped[i].meaning]),
                             !.assigned = [i \in DOMAIN mapped |-> mapped[i].at]]
    /\ UNCHANGED <<entries, activeTab, toast, imp, last>>

\* The handler has a DictData with definitions for the word.
InitAssign ==
    /\ entries = <<>>
    /\ activeTab = WantToLearnWord
    /\ toast = null
    /\ imp = idleImport
    /\ last = noOp
    /\ \E ms \in SeqsUpTo(MeansLists, MaxSenses) \ {<<>>},
          ss \in SeqsUpTo(Sentences, MaxSentences) :
          res = [ pc |-> "assign",
                  text |-> <<"a">>,
                  dictData |-> [ phoneticUs |-> "/p/",
                                 definitions |-> [i \in DOMAIN ms |->
                                                     [part |-> <<>>, means |-> ms[i]]],
                                 sentences |-> ss ],
                  response |-> noResponse,
                  assigned |-> <<>> ]

NextAssign == lookupAssign

SpecAssign == InitAssign /\ [][NextAssign]_vars

\* ------------------------------------------- sense selection (fetchWordDetails)
\* similarity(a.translation, preferredTranslation) > similarity(b.translation, ...)
closer(a, b, preferredTranslation) ==
    LET scoreA == similarity(a.translation, preferredTranslation)
        scoreB == similarity(b.translation, preferredTranslation)
    IN scoreA[1] * scoreB[2] > scoreB[1] * scoreA[2]

\* variant: return scoreA - scoreB
RECURSIVE sortedAscending(_, _)
sortedAscending(meanings, preferredTranslation) ==
    IF meanings = <<>> THEN <<>>
    ELSE LET m == CHOOSE i \in DOMAIN meanings :
                     /\ \A j \in DOMAIN meanings :
                           ~closer(meanings[i], meanings[j], preferredTranslation)
                     /\ \A j \in 1..(i - 1) :
                           closer(meanings[j], meanings[i], preferredTranslation)
         IN <<meanings[m]>>
            \o sortedAscending(SubSeq(meanings, 1, m - 1)
                               \o SubSeq(meanings, m + 1, Len(meanings)),
                               preferredTranslation)

\* [...result.meanings].sort((a, b) => scoreB - scoreA): stable, the best first
RECURSIVE sorted(_, _)
sorted(meanings, preferredTranslation) ==
    IF meanings = <<>> THEN <<>>
    ELSE LET m == CHOOSE i \in DOMAIN meanings :
                     /\ \A j \in DOMAIN meanings :
                           ~closer(meanings[j], meanings[i], preferredTranslation)
                     /\ \A j \in 1..(i - 1) :
                           closer(meanings[i], meanings[j], preferredTranslation)
         IN <<meanings[m]>>
            \o sorted(SubSeq(meanings, 1, m - 1) \o SubSeq(meanings, m + 1, Len(meanings)),
                      preferredTranslation)

\* variant: the top one is taken without a translation of the user too
selectedMeaningsTopOnly(result, preferredTranslation) ==
    IF Len(sorted(result.meanings, preferredTranslation)) > 0
    THEN <<sorted(result.meanings, preferredTranslation)[1]>>
    ELSE result.meanings

\* preferredTranslation is <<>> when it is undefined or ''
selectedMeanings(result, preferredTranslation) ==
    IF preferredTranslation # <<>> /\ trim(preferredTranslation) # <<>>
    THEN IF Len(sorted(result.meanings, preferredTranslation)) > 0
         THEN <<sorted(result.meanings, preferredTranslation)[1]>>
         ELSE result.meanings
    ELSE result.meanings

\* selectedMeanings.map((m, idx) => ({...})); idx is from 0
wordEntries(result, preferredTranslation, timestamp) ==
    LET selected == selectedMeanings(result, preferredTranslation)
    IN [ idx \in DOMAIN selected |->
           [ text |-> result.text,
             phoneticUs |-> result.phoneticUs,
             phoneticUk |-> result.phoneticUk,
             translation |-> selected[idx].translation,
             contextSentence |-> selected[idx].contextSentence,
             mixedSentence |-> selected[idx].mixedSentence,
             dictionaryExample |-> selected[idx].dictionaryExample,
             dictionaryExampleTranslation |-> selected[idx].dictionaryExampleTranslation,
             addedAt |-> timestamp + (idx - 1) ] ]

\* the meanings of a result
Meanings ==
    { [ translation |-> t[1], contextSentence |-> "", mixedSentence |-> "",
        dictionaryExample |-> t[2], dictionaryExampleTranslation |-> t[3] ] :
        t \in { << <<"x">>, "e1", <<"T", "x">> >>,
                << <<"y">>, "e2", <<"T", "y">> >>,
                << <<"X">>, "e3", <<>> >>,
                << <<"x", "y">>, "", <<>> >> } }

\* preferredTranslation: none, blank, or a translation
Hints == {<<>>, <<" ">>, <<"x">>, <<"y">>, <<"z">>}

\* fetchWordDetails from const result = response.data to the return
selectSenses ==
    /\ res.pc = "select"
    /\ res' = [res EXCEPT !.pc = "returned",
                          !.detailsList = wordEntries(res.result, res.preferredTranslation,
                                                      res.timestamp)]
    /\ UNCHANGED <<entries, activeTab, toast, imp, last>>

\* fetchWordDetails has the data of a successful response
InitSelect ==
    /\ entries = <<>>
    /\ activeTab = WantToLearnWord
    /\ toast = null
    /\ imp = idleImport
    /\ last = noOp
    /\ \E text \in HeadWords, ms \in SeqsUpTo(Meanings, MaxSenses),
          pt \in Hints, now \in 1..MaxClock :
          res = [ pc |-> "select",
                  result |-> [ text |-> text, phoneticUs |-> "/us/", phoneticUk |-> "/uk/",
                               meanings |-> ms ],
                  preferredTranslation |-> pt,
                  timestamp |-> now,
                  detailsList |-> <<>> ]

NextSelect == selectSenses

SpecSelect == InitSelect /\ [][NextSelect]_vars

\* ---------------------------------------------------- similarity scorer
MaxLen == 3

\* the characters of the strings: a letter in both cases, and a letter
\* whose lower case is longer
Alphabet == {"a", "A", "Idot"}

\* fetchWordDetails: similarity(a.translation, preferredTranslation)
score ==
    /\ res.pc = "score"
    /\ res' = [res EXCEPT !.pc = "scored", !.score = similarity(res.s1, res.s2)]
    /\ UNCHANGED <<entries, activeTab, toast, imp, last>>

\* similarity is called with two strings
InitSimilarity ==
    /\ entries = <<>>
    /\ activeTab = WantToLearnWord
    /\ toast = null
    /\ imp = idleImport
    /\ last = noOp
    /\ \E s1 \in SeqsUpTo(Alphabet, MaxLen), s2 \in SeqsUpTo(Alphabet, MaxLen) :
          res = [pc |-> "score", s1 |-> s1, s2 |-> s2, score |-> <<0, 1>>]

NextSimilarity == score

SpecSimilarity == InitSimilarity /\ [][NextSimilarity]_vars

\* ------------------------------------------- the two admission loops
\* The collections that the loops can read: an import that awaits its lookups
\* reads the collection of its start, and the handlers that run meanwhile
\* can put a key in two categories (SpecOverlap).  The translations are
\* interchangeable: the first entry has the first of them.
AnyCollections ==
    { es \in SeqsUpTo(StoredEntries, 2) : es # <<>> => es[1].translation = <<"x">> }

\* the loop of handleImportFile for one candidate and the loop of
\* handleAddWord, on the same drafts, the same tab and the same collection
admitDrafts ==
    /\ res.pc = "admit"
    /\ \E stamps \in Stamps(importDrafts(emptyBatch, res.detailsList, 1, res.targetCategory,
                                         res.entries, selectedScenarioId,
                                         noStamps(res.detailsList)).trace) :
          res' = [res EXCEPT
                    !.pc = "admitted",
                    !.imported = importDrafts(emptyBatch, res.detailsList, 1,
                                              res.targetCategory, res.entries,
                                              selectedScenarioId, stamps),
                    !.added = addDrafts(emptyBatch, res.detailsList, 1,
                                        res.targetCategory, res.entries,
                                        selectedScenarioId, stamps)]
    /\ UNCHANGED <<entries, activeTab, toast, imp, last>>

InitAdmit ==
    /\ entries = <<>>
    /\ activeTab = WantToLearnWord
    /\ toast = null
    /\ imp = idleImport
    /\ last = noOp
    /\ \E es \in AnyCollections, c \in WordCategory, d \in DetailsLists :
          res = [ pc |-> "admit", entries |-> es, targetCategory |-> c, detailsList |-> d,
                  imported |-> emptyBatch, added |-> emptyBatch ]

NextAdmit == admitDrafts

SpecAdmit == InitAdmit /\ [][NextAdmit]_vars

\* ------------------------------------- handlers during an import
\* The collection at the start of the import: empty, or one imported entry.
OverlapCollections ==
    { es \in Collections :
        /\ Len(es) <= 1
        /\ \A i \in DOMAIN es : es[i].id[1] = "import" /\ es[i].text = <<"a">> }

\* An import awaits the lookup of its first candidate; its closure holds the
\* collection and the tab of its start, and the user may have gone to
\* another tab since.  res records the closure for the time after the commit.
InitOverlap ==
    /\ entries \in OverlapCollections
    /\ activeTab \in WordCategory
    /\ \E n \in 1..MaxCandidates, c \in WordCategory :
          /\ imp = [ pc |-> "loop", targetCategory |-> c, entries |-> entries,
                     remaining |-> n, room |-> MaxSenses + 1, batch |-> emptyBatch ]
          /\ toast = Toast("info", "importStart", <<n>>)
    /\ last = [noOp EXCEPT !.op = "importStart"]
    /\ res = [pc |-> "awaiting", entries |-> entries]

\* a lookup that returns one draft at most (SpecOverlap, SpecBatch)
OverlapOutcomes == {o \in LookupOutcomes : Len(o.detailsList) <= 1}

\* While the import awaits a lookup one other handler runs, on the
\* collection as it is; then the import goes on with its closure.
NextOverlap ==
    \/ /\ imp.pc = "loop" /\ res.pc = "awaiting"
       /\ \E sel \in SUBSET ids(entries), confirmed \in BOOLEAN :
             handleDeleteSelected(sel, confirmed)
       /\ res' = [res EXCEPT !.pc = "overlapped"]
    \/ /\ imp.pc = "loop" /\ res.pc = "awaiting"
       /\ \E sel \in SUBSET ids(entries), c \in WordCategory : handleBatchMove(sel, c)
       /\ res' = [res EXCEPT !.pc = "overlapped"]
    \/ /\ imp.pc = "loop" /\ res.pc = "awaiting"
       /\ \E outcome \in OverlapOutcomes : handleAddWord(TRUE, outcome)
       /\ res' = [res EXCEPT !.pc = "overlapped"]
    \/ /\ imp.pc = "loop"
       /\ \E outcome \in OverlapOutcomes \cup {NoText} : importCandidate(outcome)
       /\ UNCHANGED res

SpecOverlap == InitOverlap /\ [][NextOverlap]_vars

\* --------------------------------------------- the loop of the import
\* variant: a candidate without a headword is looked up like the others
batchTakeAll ==
    /\ imp.pc = "loop"
    /\ res.pc = "idle"
    /\ res' = [res EXCEPT !.pc = "awaiting", !.taken = @ + 1, !.lookups = @ + 1]
    /\ UNCHANGED <<entries, activeTab, toast, imp, last>>

\* for (const candidate of candidates): if (!candidate.text) continue, else
\* the call of fetchWordDetails; res.candidates[k] says that candidate k has
\* a headword
batchTake ==
    /\ imp.pc = "loop"
    /\ res.pc = "idle"
    /\ IF res.candidates[res.taken + 1]
       THEN /\ res' = [res EXCEPT !.pc = "awaiting", !.taken = @ + 1, !.lookups = @ + 1]
            /\ UNCHANGED <<entries, activeTab, toast, imp, last>>
       ELSE /\ importCandidate(NoText)
            /\ res' = [res EXCEPT !.taken = @ + 1]

\* await fetchWordDetails(...) settles: the rest of the iteration, and after
\* the last candidate the batch update of the state
batchSettle(outcome) ==
    /\ imp.pc = "loop"
    /\ res.pc = "awaiting"
    /\ importCandidate(outcome)
    /\ res' = [res EXCEPT !.pc = "idle"]

\* An import of 1..MaxCandidates candidates, with a headword or without, is
\* at the head of its loop.
InitBatch ==
    /\ entries \in OverlapCollections
    /\ activeTab \in WordCategory
    /\ \E n \in 1..MaxCandidates :
          /\ imp = [ pc |-> "loop", targetCategory |-> targetOf(activeTab), entries |-> entries,
                     remaining |-> n, room |-> MaxSenses + 1, batch |-> emptyBatch ]
          /\ toast = Toast("info", "importStart", <<n>>)
          /\ \E cs \in [1..n -> BOOLEAN] :
                res = [pc |-> "idle", candidates |-> cs, taken |-> 0, lookups |-> 0]
    /\ last = [noOp EXCEPT !.op = "importStart"]

NextBatch ==
    \/ batchTake
    \/ \E outcome \in OverlapOutcomes : batchSettle(outcome)

\* The loop runs on, and every lookup returns or fails.
SpecBatch ==
    /\ InitBatch /\ [][NextBatch]_vars
    /\ WF_vars(batchTake)
    /\ WF_vars(\E outcome \in OverlapOutcomes : batchSettle(outcome))

\* ------------------------------------------------------------ properties
hasKey(es, cats, k) == \E i \in DOMAIN es : es[i].category \in cats /\ keyOf(es[i]) = k

withKey(es, k) == {i \in DOMAIN es : keyOf(es[i]) = k}

validDraft(d) == d.text # <<>> /\ d.translation # <<>>

\* A handler has run to its end and has changed, or left, the collection.
Completed == last.op \in {"add", "importCommit", "delete", "move"}

\* An admission batch has been committed whose last lookup returned drafts:
\* handleAddWord, or the last iteration of the import.
Admitted == last.op \in {"add", "importCommit"} /\ last.outcome.kind = "ok"

drafts == last.outcome.detailsList

\* what the drafts of the last lookup have added to the staging lists
newStaged ==
    SubSeq(last.batch.newEntriesToAdd, Len(last.staged.newEntriesToAdd) + 1,
           Len(last.batch.newEntriesToAdd))

updatesStaged ==
    SubSeq(last.batch.entriesToUpdate, Len(last.staged.entriesToUpdate) + 1,
           Len(last.batch.entriesToUpdate))

\* the batch is the one lookup: nothing was staged or counted before it
OneLookup == last.staged = emptyBatch

\* where an entry that was there before is now: the manual add puts its new
\* entries in front
shift == IF last.op = "add" THEN Len(last.batch.newEntriesToAdd) ELSE 0

Exclusive(es) ==
    \A i, j \in DOMAIN es :
        es[i].category = KnownWord /\ keyOf(es[j]) = keyOf(es[i]) => es[j].category = KnownWord

UniqueInCategory(es) ==
    \A i, j \in DOMAIN es :
        es[i].category = es[j].category /\ keyOf(es[i]) = keyOf(es[j]) => i = j

C2_UniquenessPreserved ==
    (Completed /\ UniqueInCategory(last.before)) => UniqueInCategory(entries)

\* The drafts on which the exclusivity check fires.
Conflicts(d, targetCategory, es) ==
    /\ validDraft(d)
    /\ \/ targetCategory \in {WantToLearnWord, LearningWord} /\ hasKey(es, {KnownWord}, keyOf(d))
       \/ targetCategory = KnownWord /\ hasKey(es, {WantToLearnWord, LearningWord}, keyOf(d))

\* C3: a draft on which the exclusivity check fires is counted as a conflict
\* and discarded: the conflict count goes up by one for each such draft,
\* nothing is staged for its key, and a batch of such drafts alone leaves the
\* collection as it was.
C3_ConflictDiscards ==
    Admitted =>
        LET conf == {k \in DOMAIN drafts : Conflicts(drafts[k], last.target, last.before)}
        IN /\ last.batch.conflictCount = last.staged.conflictCount + Cardinality(conf)
           /\ \A k \in conf :
                 /\ \A i \in DOMAIN newStaged : keyOf(newStaged[i]) # keyOf(drafts[k])
                 /\ \A i \in DOMAIN updatesStaged : keyOf(updatesStaged[i]) # keyOf(drafts[k])
           /\ (conf = DOMAIN drafts /\ OneLookup) => entries = last.before

\* an import of conflicting drafts alone has ended with nothing added
C3_Witness ==
    /\ last.op = "importCommit"
    /\ last.outcome.kind = "ok"
    /\ OneLookup
    /\ \A k \in DOMAIN drafts : Conflicts(drafts[k], last.target, last.before)
    /\ last.batch.conflictCount > 1
    /\ toast.text = "importNothing"

\* The drafts that the promotion rule takes: the target is Learning, the key
\* is not in Known and an entry of WantToLearn has it.
Promotes(d, targetCategory, es) ==
    /\ validDraft(d)
    /\ targetCategory = LearningWord
    /\ ~hasKey(es, {KnownWord}, keyOf(d))
    /\ hasKey(es, {WantToLearnWord}, keyOf(d))

firstWith(es, category, k) ==
    CHOOSE i \in DOMAIN es :
        /\ es[i].category = category /\ keyOf(es[i]) = k
        /\ \A j \in 1..(i - 1) : ~(es[j].category = category /\ keyOf(es[j]) = k)

\* C4: promotion: a draft admitted to Learning whose key an entry of
\* WantToLearn has turns that entry into a Learning entry in place, with its
\* id, addedAt and scenarioId (and text and translation) kept; no record is
\* created for the key, so that a batch of such drafts leaves the number of
\* entries as it was; the promoted count goes up by one for each key.
C4_PromotionInPlace ==
    Admitted =>
        LET prom == {k \in DOMAIN drafts : Promotes(drafts[k], last.target, last.before)}
        IN /\ \A k \in prom :
                 LET p == firstWith(last.before, WantToLearnWord, keyOf(drafts[k]))
                 IN /\ entries[p + shift] = [last.before[p] EXCEPT !.category = LearningWord]
                    /\ \A i \in DOMAIN newStaged : keyOf(newStaged[i]) # keyOf(drafts[k])
           /\ OneLookup =>
                 /\ last.batch.promotedCount = Cardinality({keyOf(drafts[k]) : k \in prom})
                 /\ prom = DOMAIN drafts => Len(entries) = Len(last.before)

\* The drafts that the subset rule takes: the target is WantToLearn, the key
\* is not in Known and an entry of Learning has it.
SubsetDuplicates(d, targetCategory, es) ==
    /\ validDraft(d)
    /\ targetCategory = WantToLearnWord
    /\ ~hasKey(es, {KnownWord}, keyOf(d))
    /\ hasKey(es, {LearningWord}, keyOf(d))

\* C5: subset duplicate: a draft admitted to WantToLearn whose key an entry
\* of Learning has is counted as a duplicate and changes nothing: the
\* duplicate count goes up by one for each such draft, nothing is staged for
\* its key, and a batch of such drafts alone leaves the collection as it was.
C5_SubsetDuplicate ==
    Admitted =>
        LET sub == {k \in DOMAIN drafts : SubsetDuplicates(drafts[k], last.target, last.before)}
        IN /\ last.batch.duplicateCount >= last.staged.duplicateCount + Cardinality(sub)
           /\ \A k \in sub :
                 /\ \A i \in DOMAIN newStaged : keyOf(newStaged[i]) # keyOf(drafts[k])
                 /\ \A i \in DOMAIN updatesStaged : keyOf(updatesStaged[i]) # keyOf(drafts[k])
           /\ (sub = DOMAIN drafts /\ OneLookup) =>
                 /\ last.batch.duplicateCount = Cardinality(sub)
                 /\ entries = last.before

\* a manual add to WantToLearn of a key that Learning has was refused
C5_Witness ==
    /\ last.op = "add"
    /\ last.target = WantToLearnWord
    /\ last.outcome.kind = "ok"
    /\ drafts # <<>>
    /\ \A k \in DOMAIN drafts : SubsetDuplicates(drafts[k], last.target, last.before)
    /\ toast.text = "inThisList"

\* The keys that come more than once in the batch: in two drafts of the last
\* lookup, or in one of them and in an entry staged before it.
Repeated ==
    { keyOf(drafts[k]) : k \in { k \in DOMAIN drafts :
        /\ validDraft(drafts[k])
        /\ \/ \E j \in DOMAIN drafts :
                 j # k /\ validDraft(drafts[j]) /\ keyOf(drafts[j]) = keyOf(drafts[k])
           \/ \E i \in DOMAIN last.staged.newEntriesToAdd :
                 keyOf(last.staged.newEntriesToAdd[i]) = keyOf(drafts[k]) } }

\* C6: a key that comes more than once in one batch (import or manual add)
\* and that no entry of the collection has is added once: after the batch
\* exactly one entry has it, whatever the casing and the surrounding
\* whitespace of its occurrences.
C6_OneEntryPerRepeatedKey ==
    Admitted =>
        \A k \in Repeated :
            ~hasKey(last.before, WordCategory, k) => Cardinality(withKey(entries, k)) = 1

\* an import has met a new key twice, written differently, and has one entry
\* for it
C6_Witness ==
    /\ last.op = "importCommit"
    /\ last.outcome.kind = "ok"
    /\ \E k \in DOMAIN drafts, i \in DOMAIN last.staged.newEntriesToAdd :
          LET d == drafts[k]
              e == last.staged.newEntriesToAdd[i]
          IN /\ validDraft(d)
             /\ keyOf(e) = keyOf(d)
             /\ e.text # d.text
             /\ ~hasKey(last.before, WordCategory, keyOf(d))
             /\ Cardinality(withKey(entries, keyOf(d))) = 1

\* The drafts that reach the check of the target category and find their key
\* there, or staged earlier in the batch.
SameCategoryDuplicates(ds, k, staged, targetCategory, es) ==
    /\ validDraft(ds[k])
    /\ ~Conflicts(ds[k], targetCategory, es)
    /\ ~Promotes(ds[k], targetCategory, es)
    /\ ~SubsetDuplicates(ds[k], targetCategory, es)
    /\ \/ hasKey(es, {targetCategory}, keyOf(ds[k]))
       \/ \E j \in 1..(k - 1) : validDraft(ds[j]) /\ keyOf(ds[j]) = keyOf(ds[k])
       \/ \E i \in DOMAIN staged : keyOf(staged[i]) = keyOf(ds[k])

\* C7: same-category duplicate: a draft whose key the target category has, or
\* that was staged earlier in the batch, is a duplicate: it is counted in the
\* duplicate count (with the subset duplicates) and it stages nothing, in the
\* import and in the manual add alike.
C7_DuplicateCounted ==
    Admitted =>
        LET dup == {k \in DOMAIN drafts :
                      \/ SameCategoryDuplicates(drafts, k, last.staged.newEntriesToAdd,
                                                last.target, last.before)
                      \/ SubsetDuplicates(drafts[k], last.target, last.before)}
        IN /\ last.batch.duplicateCount = last.staged.duplicateCount + Cardinality(dup)
           /\ Len(newStaged) = Cardinality({keyOf(newStaged[i]) : i \in DOMAIN newStaged})

\* C8: deleting from Learning demotes: after the delete on the Learning tab
\* every selected entry is still there, in its place, with its id and its
\* other fields, in WantToLearn, and the number of entries is the same.
C8_DeleteFromLearningDemotes ==
    (last.op = "delete" /\ activeTab = LearningWord) =>
        /\ Len(entries) = Len(last.before)
        /\ \A i \in DOMAIN last.before :
              last.before[i].id \in last.sel
                  => entries[i] = [last.before[i] EXCEPT !.category = WantToLearnWord]

\* a Learning entry of the second scenario was demoted
C8_Witness ==
    /\ last.op = "delete"
    /\ activeTab = LearningWord
    /\ toast.text = "movedBackToWant"
    /\ \E i \in DOMAIN last.before :
          /\ last.before[i].id \in last.sel
          /\ last.before[i].category = LearningWord
          /\ entries[i].category = WantToLearnWord
          /\ entries[i].scenarioId = "2"

C10_DeleteFromKnown ==
    (last.op = "delete" /\ activeTab = KnownWord) =>
        entries = SelectSeq(last.before, LAMBDA e : e.id \notin last.sel)

\* a Known entry was deleted and an entry of another category, with the same
\* headword, is still there
C10_Witness ==
    /\ last.op = "delete"
    /\ activeTab = KnownWord
    /\ \E i \in DOMAIN last.before :
          last.before[i].id \in last.sel /\ last.before[i].category = KnownWord
    /\ Len(entries) = 1
    /\ entries[1].category # KnownWord
    /\ trim(toLowerCase(entries[1].text)) = <<"a">>

\* C11: batch move is unconditional: every selected entry gets the target
\* category and keeps its other fields, every other entry is unchanged, no
\* entry is added or removed, and no exclusivity or duplicate check rejects
\* the move.
C11_BatchMoveUnconditional ==
    last.op = "move" =>
        /\ Len(entries) = Len(last.before)
        /\ \A i \in DOMAIN last.before :
              entries[i] = IF last.before[i].id \in last.sel
                           THEN [last.before[i] EXCEPT !.category = last.target]
                           ELSE last.before[i]
        /\ toast.text = "moved"

\* an entry of the second scenario was moved from WantToLearn to Known, where
\* an admission of its key is a conflict, and another entry was left alone
C11_Witness ==
    /\ last.op = "move"
    /\ last.target = KnownWord
    /\ \E i, j \in DOMAIN last.before :
          /\ last.before[i].id \in last.sel
          /\ last.before[i].category = WantToLearnWord
          /\ last.before[i].scenarioId = "2"
          /\ Conflicts(last.before[i], KnownWord, last.before)
          /\ entries[i].category = KnownWord
          /\ last.before[j].id \notin last.sel
          /\ entries[j] = last.before[j]

\* The keys that the promotion rule takes more than once in the batch: in two
\* drafts of the last lookup, or in one of them and in an earlier lookup.
promotedAgain ==
    { keyOf(drafts[k]) : k \in { k \in DOMAIN drafts :
        /\ Promotes(drafts[k], last.target, last.before)
        /\ \/ \E j \in DOMAIN drafts :
                 j # k /\ validDraft(drafts[j]) /\ keyOf(drafts[j]) = keyOf(drafts[k])
           \/ \E i \in DOMAIN last.staged.entriesToUpdate :
                 keyOf(last.staged.entriesToUpdate[i]) = keyOf(drafts[k]) } }

\* C12: a key is promoted once in a batch at most: when several drafts of a
\* batch to Learning have a key of WantToLearn, the entry is staged for the
\* promotion once, the promoted count goes up by one for the key, and no
\* entry is created for the key.
C12_PromotedOncePerKey ==
    Admitted =>
        /\ \A k \in promotedAgain :
              /\ Cardinality({i \in DOMAIN last.batch.entriesToUpdate :
                                keyOf(last.batch.entriesToUpdate[i]) = k}) = 1
              /\ \A i \in DOMAIN last.batch.newEntriesToAdd :
                    keyOf(last.batch.newEntriesToAdd[i]) # k
        /\ (OneLookup /\ promotedAgain # {}
                /\ \A k \in DOMAIN drafts : keyOf(drafts[k]) \in promotedAgain)
              => last.batch.promotedCount = Cardinality(promotedAgain)

\* C13: the entries that one admission batch creates have strictly increasing
\* addedAt values in the order of their admission: no two of them have the
\* same addedAt.
C13_AddedAtStrictlyIncreasing ==
    Admitted =>
        \A i, j \in DOMAIN last.batch.newEntriesToAdd :
            i < j => last.batch.newEntriesToAdd[i].addedAt < last.batch.newEntriesToAdd[j].addedAt

\* C14: the id of an entry created at admission is unique: no entry that was
\* in the collection has it, and no other entry of the batch.
C14_IdsUnique ==
    Admitted =>
        /\ \A i \in DOMAIN last.batch.newEntriesToAdd :
              last.batch.newEntriesToAdd[i].id \notin ids(last.before)
        /\ \A i, j \in DOMAIN last.batch.newEntriesToAdd :
              last.batch.newEntriesToAdd[i].id = last.batch.newEntriesToAdd[j].id => i = j

\* fetchEnglishDictionaryData has returned
resolved == res.pc \in {"resolved", "responded", "idle"} /\ res.engine # "custom-mock"

priorityOf(id) == res.allDicts[CHOOSE i \in DOMAIN res.allDicts : res.allDicts[i].id = id].priority

enabledIn(id) == \E i \in DOMAIN res.allDicts : res.allDicts[i].id = id /\ res.allDicts[i].isEnabled

\* the dictionary was asked (fetch was called)
invoked(i) == res.tried[i].reply.kind # "none"

\* the answer has a phonetic or a sense
usable(reply) ==
    reply.kind = "ok" /\ (reply.payload.phonetic \/ reply.payload.senses # <<>>)

\* the answer is a status other than success, or has no phonetic and no sense
softFailed(reply) == reply.kind = "notOk" \/ (reply.kind = "ok" /\ ~usable(reply))

\* the dictionaries are tried in the ascending order of their priorities,
\* each once, none left out, and only the enabled ones
triedInOrder ==
    /\ \A i \in DOMAIN res.tried : enabledIn(res.tried[i].id)
    /\ \A i, j \in DOMAIN res.tried :
          i < j => /\ res.tried[i].id # res.tried[j].id
                   /\ priorityOf(res.tried[i].id) <= priorityOf(res.tried[j].id)
    /\ \A k \in DOMAIN res.allDicts :
          (res.allDicts[k].isEnabled /\ \A i \in DOMAIN res.tried : res.tried[i].id # res.allDicts[k].id)
              => \A i \in DOMAIN res.tried : priorityOf(res.tried[i].id) <= res.allDicts[k].priority

\* C15: resolver ordering: only enabled dictionaries are asked, one at a time
\* in ascending priority, each once at most; the result is the result of the
\* first of them that gives a non-empty result (a phonetic or a sense), no
\* dictionary is asked after it, and the result is the data of that one
\* dictionary.
C15_ResolverOrdering ==
    resolved =>
        /\ triedInOrder
        /\ \A i \in DOMAIN res.tried :
              usable(res.tried[i].reply)
                  => /\ i = Len(res.tried)
                     /\ res.dictData = dictDataOf(res.tried[i].reply.payload)
        /\ res.dictData # null
              => /\ res.tried # <<>>
                 /\ usable(res.tried[Len(res.tried)].reply)

\* C16: soft failure on empty data: an answer with a status other than
\* success, or without a phonetic and without a sense, is a skip: the resolver
\* goes on to the next dictionary and does not return the empty result.
C16_SoftFailureSkips ==
    resolved =>
        \A i \in DOMAIN res.tried :
            softFailed(res.tried[i].reply)
                => IF i < Len(res.enabledDicts) THEN Len(res.tried) > i
                   ELSE res.dictData = null

\* C17: resolver failover: when the first dictionary throws, the second has
\* an empty result and the third a valid one, the result is the third's; an
\* exception of a dictionary does not leave the resolver and does not stop
\* the dictionaries after it from being tried.
C17_ResolverFailover ==
    resolved =>
        /\ ( /\ Len(res.enabledDicts) >= 3
             /\ \A i \in 1..3 : res.enabledDicts[i].id # "wiktionary"
             /\ Len(res.tried) >= 2
             /\ res.tried[1].reply.kind = "throw"
             /\ res.tried[2].reply.kind = "ok" /\ ~usable(res.tried[2].reply) )
           => /\ Len(res.tried) >= 3
              /\ usable(res.tried[3].reply)
                    => res.dictData = dictDataOf(res.tried[3].reply.payload)
        /\ \A i \in DOMAIN res.tried :
              res.tried[i].reply.kind = "throw"
                  => IF i < Len(res.enabledDicts) THEN Len(res.tried) > i
                     ELSE res.dictData = null

\* C18: resolver exhaustion: when every enabled dictionary fails (it throws,
\* answers with a status other than success or has no usable data), or none
\* is enabled, the resolver has tried all of them and returns null.
C18_ResolverExhaustion ==
    (resolved /\ \A i \in DOMAIN res.tried : ~usable(res.tried[i].reply))
        => /\ res.dictData = null
           /\ Len(res.tried) = Len(enabledDictsOf(res.allDicts))

\* the locals of the import after the candidate
batchAfter == IF last.op = "importCommit" THEN last.batch ELSE imp.batch

\* C19: ResolutionEmpty: a candidate of an import for which no dictionary has
\* usable data is a failure of that candidate: the fail count goes up by one,
\* no entry is created for it, and the import goes on.
C19_ResolutionEmptyFails ==
    ( /\ res.pc = "idle"
      /\ resolved
      /\ \A i \in DOMAIN res.tried : ~usable(res.tried[i].reply) )
        => /\ batchAfter.failCount = 1
           /\ batchAfter.newEntriesToAdd = <<>>
           /\ last.op \in {"importCandidate", "importCommit"}

\* what the commit of the import makes of the collection
committed(before, b) ==
    IF Len(b.newEntriesToAdd) > 0 \/ Len(b.entriesToUpdate) > 0
    THEN [i \in DOMAIN before |->
             IF \E u \in DOMAIN b.entriesToUpdate : b.entriesToUpdate[u].id = before[i].id
             THEN b.entriesToUpdate[CHOOSE u \in DOMAIN b.entriesToUpdate :
                                       /\ b.entriesToUpdate[u].id = before[i].id
                                       /\ \A v \in 1..(u - 1) :
                                             b.entriesToUpdate[v].id # before[i].id]
             ELSE before[i]] \o b.newEntriesToAdd
    ELSE before

isPrefix(p, q) == Len(p) <= Len(q) /\ SubSeq(q, 1, Len(p)) = p

\* C20: an error of one candidate does not end the import: when the lookup
\* of a candidate throws, the candidates after it are still looked up and
\* classified, and what was staged for the candidates before and after it is
\* committed to the collection.
C20_ErrorsDoNotAbort ==
    /\ last.op = "importCandidate" => imp.pc = "loop" /\ imp.remaining >= 1
    /\ (last.op = "importCommit" /\ last.batch.failCount > 0) =>
          /\ isPrefix(last.staged.newEntriesToAdd, last.batch.newEntriesToAdd)
          /\ isPrefix(last.staged.entriesToUpdate, last.batch.entriesToUpdate)
          /\ last.batch.failCount =
                last.staged.failCount + (IF last.outcome.kind = "throw" THEN 1 ELSE 0)
          /\ last.outcome.kind = "ok" => Len(last.batch.trace) = Len(drafts)
          /\ entries = committed(last.before, last.batch)

\* the lookup of the last candidate of an import has thrown, and the entry
\* staged for the candidate before it is in the collection
C20_Witness ==
    /\ last.op = "importCommit"
    /\ last.outcome.kind = "throw"
    /\ last.batch.failCount = 1
    /\ Len(last.staged.newEntriesToAdd) = 1
    /\ entries = last.before \o last.staged.newEntriesToAdd
    /\ toast.text = "importDone"

\* C21: ConfigurationError: without an enabled translation engine an import
\* and a manual add end at once, before any work on a candidate: no lookup is
\* made, nothing is classified, and the collection is as it was.
C21_NoEngineFailsFirst ==
    last.op \in {"importNoEngine", "addNoEngine"} =>
        /\ entries = last.before
        /\ imp = idleImport
        /\ res = idleLookup
        /\ last.batch = emptyBatch
        /\ last.outcome = noOutcome
        /\ toast = Toast("error", "noEngine", <<>>)

\* an import into a collection of two entries has ended on the missing engine
C21_Witness ==
    /\ last.op = "importNoEngine"
    /\ Len(entries) = 2
    /\ toast.text = "noEngine"

\* what the last lookup has added to the counts
counted ==
    (last.batch.successCount - last.staged.successCount)
    + (last.batch.promotedCount - last.staged.promotedCount)
    + (last.batch.duplicateCount - last.staged.duplicateCount)
    + (last.batch.conflictCount - last.staged.conflictCount)

\* C22: ValidationError: a draft without a headword or without a translation
\* is skipped silently: no entry and no promotion is staged for it and no
\* count goes up, and the other drafts of the lookup are still processed.
C22_InvalidDraftSkipped ==
    Admitted =>
        LET bad == {k \in DOMAIN drafts : ~validDraft(drafts[k])}
            good == DOMAIN drafts \ bad
        IN /\ Len(last.batch.trace) = Len(drafts)
           /\ \A k \in DOMAIN drafts : (k \in bad) <=> (last.batch.trace[k] = "skip")
           /\ \A i \in DOMAIN newStaged : validDraft(newStaged[i])
           /\ Len(newStaged) + Len(updatesStaged) <= Cardinality(good)
           /\ counted <= Cardinality(good)
           /\ last.batch.failCount = last.staged.failCount
           /\ (good = {} /\ OneLookup) =>
                 /\ entries = last.before
                 /\ last.batch = [emptyBatch EXCEPT !.trace = last.batch.trace]

\* a manual add has skipped a draft without a translation and has added the
\* draft after it
C22_Witness ==
    /\ last.op = "add"
    /\ last.outcome.kind = "ok"
    /\ Len(drafts) = 2
    /\ drafts[1].translation = <<>>
    /\ validDraft(drafts[2])
    /\ Len(last.batch.newEntriesToAdd) = 1
    /\ Len(entries) = Len(last.before) + 1
    /\ toast.text = "addedNew"

\* C23: end-of-batch tally: every import that has passed the check of the
\* engine ends with one summary that has the counts of new, promoted,
\* duplicate, conflicting and failed drafts, whatever the outcome, also when
\* nothing was added or promoted.
C23_TallyReported ==
    last.op = "importCommit" =>
        toast = Toast("success", "importDone",
                      <<last.batch.successCount, last.batch.promotedCount,
                        last.batch.duplicateCount, last.batch.conflictCount,
                        last.batch.failCount>>)

\* The drafts of the last lookup whose key is new when they are admitted: no
\* entry of the starting collection has it, no entry staged by an earlier
\* candidate, and no draft before it in the lookup.
admittedNew ==
    SelectSeq([k \in DOMAIN drafts |-> k], LAMBDA k :
        /\ validDraft(drafts[k])
        /\ ~hasKey(last.before, WordCategory, keyOf(drafts[k]))
        /\ ~hasKey(last.staged.newEntriesToAdd, WordCategory, keyOf(drafts[k]))
        /\ \A j \in 1..(k - 1) : validDraft(drafts[j]) => keyOf(drafts[j]) # keyOf(drafts[k]))

\* C24: sequential admission: the candidates of an import are admitted in the
\* order of the input, each decision is made against the starting collection
\* and everything staged for the candidates before, and the new entries come
\* into the collection in the order of the input.
C24_SequentialAdmission ==
    (last.op = "importCommit" /\ last.outcome.kind = "ok") =>
        /\ isPrefix(last.staged.newEntriesToAdd, last.batch.newEntriesToAdd)
        /\ isPrefix(last.staged.entriesToUpdate, last.batch.entriesToUpdate)
        /\ Len(newStaged) = Len(admittedNew)
        /\ \A i \in DOMAIN newStaged :
              /\ newStaged[i].text = drafts[admittedNew[i]].text
              /\ newStaged[i].translation = drafts[admittedNew[i]].translation
              /\ newStaged[i].category = last.target
        /\ Len(entries) = Len(last.before) + Len(last.batch.newEntriesToAdd)
        /\ SubSeq(entries, Len(last.before) + 1, Len(entries)) = last.batch.newEntriesToAdd

\* an import of two candidates has added the entry of the first and then the
\* entry of the second, and has not added the key of the first again
C24_Witness ==
    /\ last.op = "importCommit"
    /\ last.outcome.kind = "ok"
    /\ Len(last.staged.newEntriesToAdd) = 1
    /\ Len(drafts) = 2
    /\ keyOf(drafts[1]) = keyOf(last.staged.newEntriesToAdd[1])
    /\ admittedNew = <<2>>
    /\ Len(entries) = 2
    /\ entries[1] = last.staged.newEntriesToAdd[1]
    /\ keyOf(entries[2]) = keyOf(drafts[2])

\* -------------------------------------------- sentence assigner properties
assigned == res.assigned

senseKeywords(i) == extractKeywords(res.dictData.definitions[i].means)

\* the sentences consumed by the senses before sense i
consumedBefore(i) == {assigned[j] : j \in 1..(i - 1)} \ {0}

\* the sentences not consumed before sense i whose translation has a keyword
\* of the sense in it
matching(i) ==
    { n \in DOMAIN res.dictData.sentences \ consumedBefore(i) :
        \E k \in DOMAIN senseKeywords(i) :
            includes(res.dictData.sentences[n].trans, senseKeywords(i)[k]) }

exampleOf(i) == res.response.meanings[i].dictionaryExample

exampleTranslationOf(i) == res.response.meanings[i].dictionaryExampleTranslation

Assigned == res.pc = "responded" /\ Len(assigned) = Len(res.dictData.definitions)

\* C25: no reuse: each sense has one sentence of the list or none, and no
\* sentence index is assigned to two senses.
C25_NoSentenceReuse ==
    Assigned =>
        /\ \A i \in DOMAIN assigned :
              IF assigned[i] = 0
              THEN exampleOf(i) = "" /\ exampleTranslationOf(i) = <<>>
              ELSE /\ assigned[i] \in DOMAIN res.dictData.sentences
                   /\ exampleOf(i) = res.dictData.sentences[assigned[i]].orig
                   /\ exampleTranslationOf(i) = res.dictData.sentences[assigned[i]].trans
        /\ \A i, j \in DOMAIN assigned :
              (i # j /\ assigned[i] # 0) => assigned[i] # assigned[j]

\* the second sense has a keyword that is in the sentence of the first sense,
\* and has no sentence
C25_Witness ==
    /\ Assigned
    /\ Len(assigned) = 2
    /\ assigned[1] # 0
    /\ assigned[2] = 0
    /\ \E k \in DOMAIN senseKeywords(2) :
          includes(res.dictData.sentences[assigned[1]].trans, senseKeywords(2)[k])

C28_SingleCharacterExcluded ==
    Assigned =>
        \A i \in DOMAIN assigned :
            (\A k \in DOMAIN senseKeywords(i) : Len(senseKeywords(i)[k]) = 1) =>
                (assigned[i] # 0 => (i = 1 /\ assigned[i] = 1))

\* -------------------------------------------------- sense selector properties
senses == res.result.meanings

hint == res.preferredTranslation

\* sense i is not less similar to the hint than sense j
notLess(i, j) ==
    LET a == similarity(senses[i].translation, hint)
        b == similarity(senses[j].translation, hint)
    IN a[1] * b[2] >= b[1] * a[2]

\* the draft is made of the result and of sense i
draftOf(d, i) ==
    /\ d.text = res.result.text
    /\ d.phoneticUs = res.result.phoneticUs
    /\ d.phoneticUk = res.result.phoneticUk
    /\ d.translation = senses[i].translation
    /\ d.dictionaryExample = senses[i].dictionaryExample
    /\ d.dictionaryExampleTranslation = senses[i].dictionaryExampleTranslation

\* C29: with a hint that is not blank and one sense at least, one draft is
\* produced, for the first of the senses whose similarity to the hint is
\* maximal.
C29_HintKeepsFirstClosest ==
    (res.pc = "returned" /\ trim(hint) # <<>> /\ Len(senses) > 0) =>
        /\ Len(res.detailsList) = 1
        /\ \E i \in DOMAIN senses :
              /\ draftOf(res.detailsList[1], i)
              /\ \A j \in DOMAIN senses : notLess(i, j)
              /\ \A j \in 1..(i - 1) : ~notLess(j, i)

\* two senses with the maximal similarity and not the same example: the draft
\* is of the first
C29_Witness ==
    /\ res.pc = "returned"
    /\ trim(hint) # <<>>
    /\ Len(senses) = 2
    /\ notLess(1, 2) /\ notLess(2, 1)
    /\ senses[1].dictionaryExample # senses[2].dictionaryExample
    /\ Len(res.detailsList) = 1
    /\ draftOf(res.detailsList[1], 1)

\* C30: without a hint, or with a blank one, every sense passes through: one
\* draft for each sense, in source order, with the headword and the phonetics
\* of the result and the translation and the example of the sense.
C30_NoHintKeepsAll ==
    (res.pc = "returned" /\ trim(hint) = <<>>) =>
        /\ Len(res.detailsList) = Len(senses)
        /\ \A i \in DOMAIN senses : draftOf(res.detailsList[i], i)

\* a blank hint and two senses that are not the same: two drafts
C30_Witness ==
    /\ res.pc = "returned"
    /\ hint = <<" ">>
    /\ Len(senses) = 2
    /\ senses[1].translation # senses[2].translation
    /\ Len(res.detailsList) = 2
    /\ draftOf(res.detailsList[1], 1)
    /\ draftOf(res.detailsList[2], 2)

\* --------------------------------------------- similarity scorer properties
\* the classic Levenshtein distance: an insertion, a deletion and a
\* substitution cost 1 each
RECURSIVE levenshtein(_, _)
levenshtein(s1, s2) ==
    IF s1 = <<>> THEN Len(s2)
    ELSE IF s2 = <<>> THEN Len(s1)
    ELSE IF Head(s1) = Head(s2) THEN levenshtein(Tail(s1), Tail(s2))
    ELSE 1 + min(levenshtein(Tail(s1), Tail(s2)),
                 min(levenshtein(Tail(s1), s2), levenshtein(s1, Tail(s2))))

sameScore(p, q) == p[1] * q[2] = q[1] * p[2]

Scored == res.pc = "scored"

\* C31: similarity(a, a) = 1, similarity(a, b) = similarity(b, a), and the
\* similarity of two empty strings is 1.
C31_SimilarityRelations ==
    Scored =>
        /\ res.s1 = res.s2 => sameScore(res.score, <<1, 1>>)
        /\ sameScore(res.score, similarity(res.s2, res.s1))
        /\ (res.s1 = <<>> /\ res.s2 = <<>>) => sameScore(res.score, <<1, 1>>)

\* two strings of different lengths, not the same in lower case, with a
\* character in common: the score is between 0 and 1 and the same both ways
C31_Witness ==
    /\ Scored
    /\ Len(res.s1) > Len(res.s2)
    /\ Len(res.s2) > 0
    /\ 0 < res.score[1]
    /\ res.score[1] < res.score[2]
    /\ sameScore(res.score, similarity(res.s2, res.s1))

maxLen == IF Len(res.s1) > Len(res.s2) THEN Len(res.s1) ELSE Len(res.s2)

distance == levenshtein(toLowerCase(res.s1), toLowerCase(res.s2))

\* C32: for two strings that are not both empty the similarity is
\* (maxLen - d) / maxLen with d the Levenshtein distance of the strings in
\* lower case; 0 <= d <= maxLen, the similarity is in [0, 1], and d = 0
\* exactly when the strings are the same in lower case.
C32_SimilarityIsLevenshtein ==
    (Scored /\ (res.s1 # <<>> \/ res.s2 # <<>>)) =>
        /\ sameScore(res.score, <<maxLen - distance, maxLen>>)
        /\ 0 <= distance /\ distance <= maxLen
        /\ 0 <= res.score[1] /\ res.score[1] <= res.score[2] /\ res.score[2] > 0
        /\ (res.score[1] = res.score[2]) <=> (toLowerCase(res.s1) = toLowerCase(res.s2))


\* ------------------------------------------------ admission loop properties
Admitted2 == res.pc = "admitted"

\* draft k has a headword and a translation, and its key is in Known and in
\* WantToLearn
inKnownAndWant(k) ==
    /\ validDraft(res.detailsList[k])
    /\ hasKey(res.entries, {KnownWord}, keyOf(res.detailsList[k]))
    /\ hasKey(res.entries, {WantToLearnWord}, keyOf(res.detailsList[k]))

\* C33: decision order: a draft for Learning whose key is in Known and in
\* WantToLearn is a conflict, in the import and in the manual add: nothing is
\* promoted and nothing is added for it.
C33_ConflictBeforePromote ==
    (Admitted2 /\ res.targetCategory = LearningWord) =>
        \A k \in DOMAIN res.detailsList :
            inKnownAndWant(k) =>
                /\ res.imported.trace[k] = "conflict"
                /\ res.added.trace[k] = "conflict"
                /\ ~hasKey(res.imported.entriesToUpdate, WordCategory, keyOf(res.detailsList[k]))
                /\ ~hasKey(res.added.entriesToUpdate, WordCategory, keyOf(res.detailsList[k]))
                /\ ~hasKey(res.imported.newEntriesToAdd, WordCategory, keyOf(res.detailsList[k]))
                /\ ~hasKey(res.added.newEntriesToAdd, WordCategory, keyOf(res.detailsList[k]))

\* one draft for Learning with its key in Known and in WantToLearn: a
\* conflict is counted and the staging lists are empty
C33_Witness ==
    /\ Admitted2
    /\ res.targetCategory = LearningWord
    /\ Len(res.detailsList) = 1
    /\ inKnownAndWant(1)
    /\ res.imported.conflictCount = 1
    /\ res.imported.newEntriesToAdd = <<>>
    /\ res.imported.entriesToUpdate = <<>>
    /\ res.added.conflictCount = 1
    /\ res.added.newEntriesToAdd = <<>>
    /\ res.added.entriesToUpdate = <<>>

\* what an entry is but for its id and its time
staged(e) == [text |-> e.text, translation |-> e.translation, category |-> e.category,
              scenarioId |-> e.scenarioId]

\* C39: on the same drafts, target category and collection, the manual add
\* and the import stage the same new entries (keys, category, order) and the
\* same promotions; the ids have the prefix of the path.
C39_SameStaging ==
    Admitted2 =>
        /\ [i \in DOMAIN res.imported.newEntriesToAdd |-> staged(res.imported.newEntriesToAdd[i])]
             = [i \in DOMAIN res.added.newEntriesToAdd |-> staged(res.added.newEntriesToAdd[i])]
        /\ res.imported.entriesToUpdate = res.added.entriesToUpdate
        /\ \A i \in DOMAIN res.imported.newEntriesToAdd :
              res.imported.newEntriesToAdd[i].id[1] = "import"
        /\ \A i \in DOMAIN res.added.newEntriesToAdd :
              res.added.newEntriesToAdd[i].id[1] = "manual"

\* two drafts for Learning: one is promoted, one is new, and a draft is there
\* twice
C39_Witness ==
    /\ Admitted2
    /\ Len(res.imported.newEntriesToAdd) = 1
    /\ Len(res.imported.entriesToUpdate) = 1
    /\ Len(res.added.newEntriesToAdd) = 1
    /\ Len(res.added.entriesToUpdate) = 1
    /\ res.imported.newEntriesToAdd[1].id # res.added.newEntriesToAdd[1].id

\* ------------------------------------------------ global key uniqueness
\* at most one entry for a key in the whole collection
UniqueKeys(es) == \A i, j \in DOMAIN es : keyOf(es[i]) = keyOf(es[j]) => i = j

\* C34: global key uniqueness: a draft is new only when its key is in no
\* category of the collection and in no entry staged in the batch; a
\* completed admission, deletion or batch move on a collection with one entry
\* at most for each key leaves one entry at most for each key.
C34_GlobalKeyUniqueness ==
    /\ Admitted =>
          \A i \in DOMAIN newStaged :
              /\ ~hasKey(last.before, WordCategory, keyOf(newStaged[i]))
              /\ ~hasKey(last.staged.newEntriesToAdd, WordCategory, keyOf(newStaged[i]))
              /\ \A j \in DOMAIN newStaged : keyOf(newStaged[j]) = keyOf(newStaged[i]) => i = j
    /\ (Completed /\ UniqueKeys(last.before)) => UniqueKeys(entries)

\* ------------------------------------------------ one response per request
\* the handler has a step to take: a branch on the engine, a dictionary of
\* the loop that is not tried yet, or the part after the resolver
hasStep ==
    \/ res.pc = "lookup"
    \/ res.pc = "resolve" /\ Len(res.tried) < Len(res.enabledDicts)
    \/ res.pc = "resolved"

\* C38: a LOOKUP_WORD request has one response, a success with a result or a
\* failure: a handler that has not answered has a step to take, the response,
\* once sent, is not sent again, and the caller throws for a failure and for
\* a missing response.
C38_OneResponse ==
    /\ [](res.pc = "responded" =>
             /\ res.response.kind \in {"success", "failure"}
             /\ res.response.kind = "failure" =>
                    fetchWordDetails(res.response, res.preferredTranslation) = Thrown
             /\ res.response.kind = "success" =>
                    fetchWordDetails(res.response, res.preferredTranslation).kind = "ok"
             /\ fetchWordDetails(noResponse, res.preferredTranslation) = Thrown)
    /\ [](res.pc \in {"lookup", "resolve", "resolved"} =>
             res.response = noResponse /\ hasStep)
    /\ [][res.response # noResponse => res.response' = res.response]_vars

\* the dictionaries have nothing, the translation call has thrown, and the
\* response is a failure, for which the caller throws
C38_Witness ==
    /\ res.pc = "responded"
    /\ res.engine = "tencent"
    /\ res.dictData = null
    /\ Len(res.tried) > 0
    /\ res.response = failure
    /\ fetchWordDetails(res.response, res.preferredTranslation) = Thrown

\* ------------------------------------- handlers during an import
\* the import has committed after another handler ran during its lookups
CommittedAfterOverlap == last.op = "importCommit" /\ res.pc = "overlapped"

UniqueIds(es) == \A i, j \in DOMAIN es : es[i].id = es[j].id => i = j

\* C35: when another admission or a batch move runs while an import awaits
\* its lookups, the collection after the commits still has no key twice in a
\* category and no key both in Known and in WantToLearn or Learning
\* (stated for collections that had the two properties before the commit).
C35_OverlapKeepsInvariants ==
    (CommittedAfterOverlap /\ Exclusive(last.before) /\ UniqueInCategory(last.before))
        => (Exclusive(entries) /\ UniqueInCategory(entries))

\* an admission batch has been committed: handleAddWord, or the last
\* iteration of the import
BatchCommitted == last.op \in {"add", "importCommit"}

\* the new entries of the batch, where the commit has put them
appended ==
    IF last.op = "add" THEN SubSeq(entries, 1, Len(last.batch.newEntriesToAdd))
    ELSE SubSeq(entries, Len(last.before) + 1, Len(entries))

\* C36: the commit of an admission batch is computed from the collection of
\* the commit time: every id of the collection before the commit is in the
\* collection after it, the entries added since the start of the batch
\* included; the commit appends the new entries and replaces, by id, the
\* promoted ones, and does nothing else.
C36_NoLostEntries ==
    BatchCommitted =>
        /\ ids(last.before) \subseteq ids(entries)
        /\ Len(entries) = Len(last.before) + Len(appended)
        /\ appended = last.batch.newEntriesToAdd
        /\ \A i \in DOMAIN last.before :
               \/ entries[i + shift] = last.before[i]
               \/ \E u \in DOMAIN last.batch.entriesToUpdate :
                     /\ last.batch.entriesToUpdate[u].id = last.before[i].id
                     /\ entries[i + shift] = last.batch.entriesToUpdate[u]

\* an import adds an entry and commits after a manual add has added one
C36_Witness ==
    /\ CommittedAfterOverlap
    /\ Len(last.batch.newEntriesToAdd) > 0
    /\ \E i \in DOMAIN last.before :
          /\ last.before[i].id \notin ids(res.entries)
          /\ entries[i] = last.before[i]
    /\ UniqueIds(entries)

\* C37: a promotion staged during a batch sets an entry to Learning at the
\* commit only if the entry is in WantToLearn at the time of the commit, and
\* changes its category only; an entry that was deleted meanwhile is not
\* recreated.
C37_PromotionOnlyFromWant ==
    last.op = "importCommit" =>
        /\ \A i \in DOMAIN last.before :
               \/ entries[i] = last.before[i]
               \/ /\ last.before[i].category = WantToLearnWord
                  /\ entries[i] = promote(last.before[i])
        /\ appended = last.batch.newEntriesToAdd

\* --------------------------------------------- the loop of the import
\* the candidates with a headword among the first k
withText(k) == {j \in 1..k : res.candidates[j]}

\* the import has finished: the batch update is done
Finished == imp.pc = "idle" /\ last.op = "importCommit"

\* C40: a batch runs to completion: when every lookup returns or fails, the
\* import takes every candidate once, in order, looks up the ones with a
\* headword and only them, then writes the collection once at most, at the
\* commit, and finishes.
C40_BatchCompletes ==
    /\ (imp.pc = "loop") ~> Finished
    /\ [](imp.pc = "loop" =>
             /\ res.taken + imp.remaining =
                    Len(res.candidates) + (IF res.pc = "awaiting" THEN 1 ELSE 0)
             /\ entries = imp.entries)
    /\ [](res.lookups = Cardinality(withText(res.taken)))
    /\ [](Finished => res.taken = Len(res.candidates) /\ res.pc = "idle")
    /\ [][/\ ~Finished
          /\ res'.taken \in {res.taken, res.taken + 1}
          /\ res'.taken = res.taken <=> res.pc = "awaiting"
          /\ entries' # entries => Finished']_vars

\* an import of two candidates, the first without a headword, has finished
\* with one lookup and has written the collection
C40_Witness ==
    /\ Finished
    /\ Len(res.candidates) > 1
    /\ ~res.candidates[1]
    /\ res.lookups = Len(res.candidates) - 1
    /\ entries # last.before

====
